---- MODULE Spec2Model ----
(***************************************************************************)
(* gogo: the streaming tool-calling engine.                                *)
(*                                                                         *)
(* One run of Client.Stream: dispatch on the configured provider, send the *)
(* first request, decode the streamed payloads (text deltas to the output  *)
(* sink, tool calls into the adapter's accumulator), execute the requested *)
(* tools through the plugin registry and send one continuation request.    *)
(*                                                                         *)
(* Strings that the code concatenates or parses (tool-call arguments, text *)
(* deltas, the output sink) are sequences of one-character strings.        *)
(* The remote service, the filesystem, HTTP endpoints and subprocesses are *)
(* the environment: what they answer is a nondeterministic choice.         *)
(* The output sink is assumed to accept every write (os.Stdout).           *)
(***************************************************************************)
EXTENDS Integers, Sequences, FiniteSets, TLC

\* ------------------------------------------------------------------ bounds
\* payloads delivered by ReadEvents over one run (both rounds together)
MaxPayloads == 3
\* function calls one Gemini stream may request
MaxCalls == 2
\* length of the argument string whose fragmentations are enumerated
MaxLen == 3
\* lines of the stream handed to ReadEvents
MaxLines == 4
\* payloads the scanner may hold buffered when the context is cancelled
MaxAhead == 1
\* entries of a tool declaration file
MaxFile == 2
\* length of the contents of a file in the storage
MaxData == 2
\* pieces of text and placeholders a template is made of
MaxPieces == 3
\* tool calls of one round whose diagnostic lines are followed
MaxLogCalls == 2
\* characters by which an input may exceed the limit of a diagnostic line
MaxOver == 2
\* chunks a subprocess writes to its standard output or standard error
MaxOut == 2

\* ------------------------------------------------------- input alphabets
Providers == {"openai", "anthropic", "gemini"}
\* item ids / content-block ids the remote service uses in one stream
Ids == {"A", "B"}
\* tool names the remote service may ask for; "ghost" is never registered
CallNames == {"fs", "ext", "ghost"}
\* text deltas
Texts == {<<"h">>, <<"i">>}
\* argument fragments
Chunks == {<<"{", "}">>, <<"}">>}
\* Args of a Gemini functionCall part: absent (nil map) or an empty object
GeminiArgs == {"nil", "empty"}
\* a payload that is not valid JSON
BAD == [kind |-> "malformed"]

\* ------------------------------------------------------------- helpers
RECURSIVE Concat(_)
Concat(ss) == IF ss = <<>> THEN <<>> ELSE Head(ss) \o Concat(Tail(ss))

Last(s) == s[Len(s)]

IsPrefix(s, t) == Len(s) <= Len(t) /\ SubSeq(t, 1, Len(s)) = s

\* all sequences over S of length at most k
Strings(S, k) == UNION {[1..m -> S] : m \in 0..k}

\* strings.HasPrefix, strings.TrimPrefix, strings.TrimSpace
HasPrefix(s, prefix) == IsPrefix(prefix, s)

TrimPrefix(s, prefix) ==
    IF HasPrefix(s, prefix) THEN SubSeq(s, Len(prefix) + 1, Len(s)) ELSE s

IsSpace(c) == c \in {" ", "\t"}

RECURSIVE TrimLeft(_)
TrimLeft(s) == IF s # <<>> /\ IsSpace(Head(s)) THEN TrimLeft(Tail(s)) ELSE s

RECURSIVE TrimRight(_)
TrimRight(s) ==
    IF s # <<>> /\ IsSpace(s[Len(s)])
    THEN TrimRight(SubSeq(s, 1, Len(s) - 1)) ELSE s

TrimSpace(s) == TrimRight(TrimLeft(s))

\* the elements of ss with sep between them
RECURSIVE Join(_, _)
Join(ss, sep) ==
    IF ss = <<>> THEN <<>>
    ELSE IF Len(ss) = 1 THEN ss[1]
    ELSE ss[1] \o sep \o Join(Tail(ss), sep)

\* json.Unmarshal of an argument string into a map or a struct: of the
\* strings over the alphabet only "{}" and "null" are JSON values it accepts
JSONParses(s) == s \in {<<"{", "}">>, <<"n", "u", "l", "l">>}

\* json.Marshal of the Args map of a Gemini function call
Marshal(args) == IF args = "nil" THEN <<"n", "u", "l", "l">> ELSE <<"{", "}">>

\* ------------------------------------------------------------ registry
FSToolName == "fs"

BuiltinFS == [Name |-> FSToolName, Type |-> "builtin"]

\* the registry LoadWithBuiltins returns for a plugins file that declares
\* one user tool "ext" of the given type
LoadWithBuiltins(extType) ==
    [n \in {FSToolName, "ext"} |->
        IF n = FSToolName THEN BuiltinFS ELSE [Name |-> "ext", Type |-> extType]]

Get_any(reg, name) == TRUE

Get(reg, name) == name \in DOMAIN reg

Result(ok, data, error) == [OK |-> ok, Data |-> data, Error |-> error]

\* what the filesystem, an HTTP endpoint or a subprocess may answer
FSOutcomes == {Result(TRUE, "data", ""), Result(FALSE, "", "storage error")}
HTTPOutcomes == {Result(TRUE, "data", ""), Result(FALSE, "", "HTTP 4xx")}
ExecOutcomes == {Result(TRUE, "data", ""), Result(FALSE, "", "exit status 1"),
                 Result(FALSE, "", "command timed out")}

ExecuteFS(input) ==
    IF ~JSONParses(input)
    THEN {Result(FALSE, "", "json error")}
    ELSE FSOutcomes

ToolExecute_noMessage(t, input) ==
    IF Len(input) > 0 /\ ~JSONParses(input)
    THEN {Result(FALSE, "", "")}
    ELSE CASE t.Type = "http" -> HTTPOutcomes
           [] t.Type = "exec" -> ExecOutcomes
           [] OTHER -> {Result(FALSE, "", "")}

ToolExecute(t, input) ==
    IF Len(input) > 0 /\ ~JSONParses(input)
    THEN {Result(FALSE, "", "invalid input")}
    ELSE CASE t.Type = "http" -> HTTPOutcomes
           [] t.Type = "exec" -> ExecOutcomes
           [] t.Type = "builtin" ->
                {Result(FALSE, "", "builtin tools must be executed via ExecuteBuiltin")}
           [] OTHER -> {Result(FALSE, "", "unknown tool type")}

ExecuteBuiltin(name, input) ==
    IF name = FSToolName
    THEN [res |-> ExecuteFS(input), handled |-> TRUE]
    ELSE [res |-> {Result(FALSE, "", "")}, handled |-> FALSE]

\* the result for a name that is not registered
UnknownTool_bare(name) == Result(FALSE, "", "unknown tool")

UnknownTool(name) == Result(FALSE, "", "unknown tool: " \o name)

\* Registry.Execute: the set of results the call may return
Execute(reg, name, input) ==
    IF name \notin DOMAIN reg
    THEN {UnknownTool(name)}
    ELSE ToolExecute(reg[name], input)

\* Registry.ExecuteTool: the set of results the call may return
ExecuteTool(reg, name, input) ==
    IF name \notin DOMAIN reg
    THEN {UnknownTool(name)}
    ELSE IF reg[name].Type = "builtin"
         THEN IF ExecuteBuiltin(name, input).handled
              THEN ExecuteBuiltin(name, input).res
              ELSE {Result(FALSE, "", "unhandled builtin tool")}
         ELSE ToolExecute(reg[name], input)

\* Result.ToJSON: "data" and "error" are omitted when empty
ToJSON(res) ==
    <<<<"ok", res.OK>>>>
    \o (IF res.Data # "" THEN <<<<"data", res.Data>>>> ELSE <<>>)
    \o (IF res.Error # "" THEN <<<<"error", res.Error>>>> ELSE <<>>)

\* ------------------------------------------------------------ diagnostics
LogLimit == 100

logToolResult(w, prov, toolName, input, res) ==
    IF ~w THEN <<>>
    ELSE <<[tool |-> toolName, provider |-> prov, ok |-> res.OK,
            err |-> IF res.Error = "" THEN "-" ELSE res.Error,
            input |-> IF Len(input) > LogLimit
                      THEN SubSeq(input, 1, LogLimit - 3) \o <<".", ".", ".">>
                      ELSE input]>>

\* --------------------------------------------------------------- payloads
\* call_id the remote service gives the function call of item id
CallIdOf(id) == IF id = "A" THEN "call_A" ELSE "call_B"
\* index of the content block with the given id in an Anthropic stream
IndexOf(id) == CASE id = "A" -> 0 [] id = "B" -> 1 [] OTHER -> 2

OpenAIPayloads ==
    {BAD}
    \cup {[kind |-> "json", type |-> "response.created", id |-> "resp_1"]}
    \cup {[kind |-> "json", type |-> "response.completed"]}
    \cup {[kind |-> "json", type |-> "response.output_text.delta", delta |-> t] :
            t \in Texts}
    \cup {[kind |-> "json", type |-> "response.output_item.added",
           item |-> [ID |-> i, Type |-> "function_call", CallID |-> CallIdOf(i),
                     Name |-> n, Arguments |-> <<>>]] : i \in Ids, n \in CallNames}
    \cup {[kind |-> "json", type |-> "response.output_item.added",
           item |-> [ID |-> "M", Type |-> "message", CallID |-> "",
                     Name |-> "", Arguments |-> <<>>]]}
    \cup {[kind |-> "json", type |-> "response.function_call_arguments.delta",
           item_id |-> i, delta |-> c] : i \in Ids, c \in Chunks}

AnthropicPayloads ==
    {BAD}
    \cup {[kind |-> "json", type |-> "message_stop"]}
    \cup {[kind |-> "json", type |-> "content_block_start", index |-> IndexOf(i),
           content_block |-> [Type |-> "tool_use", ID |-> i, Name |-> n]] :
            i \in Ids, n \in CallNames}
    \cup {[kind |-> "json", type |-> "content_block_start", index |-> IndexOf("text"),
           content_block |-> [Type |-> "text", ID |-> "", Name |-> ""]]}
    \cup {[kind |-> "json", type |-> "content_block_delta", index |-> IndexOf("text"),
           delta |-> [Type |-> "text_delta", Text |-> t, Partial |-> <<>>]] :
            t \in Texts}
    \cup {[kind |-> "json", type |-> "content_block_delta", index |-> IndexOf(i),
           delta |-> [Type |-> "input_json_delta", Text |-> <<>>, Partial |-> c]] :
            i \in Ids, c \in Chunks}

TextPart(t) == [Text |-> t, hasCall |-> FALSE, Name |-> "", Args |-> "nil"]
CallPart(n, a) == [Text |-> <<>>, hasCall |-> TRUE, Name |-> n, Args |-> a]

GeminiParts ==
    {TextPart(t) : t \in Texts} \cup {CallPart(n, a) : n \in CallNames, a \in GeminiArgs}

GeminiPayloads ==
    {BAD}
    \cup {[kind |-> "json", candidates |-> <<>>]}
    \cup {[kind |-> "json", candidates |-> << <<p>> >>] : p \in GeminiParts}
    \cup {[kind |-> "json", candidates |-> << <<TextPart(<<"h">>), CallPart("fs", "empty")>> >>],
          [kind |-> "json", candidates |-> << <<CallPart("ext", "nil"), TextPart(<<"i">>)>> >>],
          [kind |-> "json", candidates |-> << <<CallPart("ghost", "empty")>>,
                                              <<CallPart("fs", "empty")>> >>]}

Payloads(p) ==
    CASE p = "openai" -> OpenAIPayloads
      [] p = "anthropic" -> AnthropicPayloads
      [] OTHER -> GeminiPayloads

\* --------------------------------------------------------------- decoding
\* The state of one StreamOnce call: toolCalls (the map keyed by item or
\* block id), activeToolID, responseID, and gcalls, the slice of Gemini.
\* A decode step yields the new state, the text written to the output sink
\* and whether the callback returned an error.
NewOnce == [toolCalls |-> <<>>, activeToolID |-> "", responseID |-> "", gcalls |-> <<>>]

Put(m, k, v) == [x \in (DOMAIN m) \cup {k} |-> IF x = k THEN v ELSE m[x]]

Step(st, w, e) == [st |-> st, write |-> w, err |-> e]

\* call.Arguments += delta
AppendChunk_trimmed(args, chunk) == args \o TrimSpace(chunk)

AppendChunk(args, chunk) == args \o chunk

openAIOnData(st, data) ==
    IF data.kind # "json" THEN Step(st, <<>>, TRUE)
    ELSE CASE data.type = "response.created" ->
                Step([st EXCEPT !.responseID = data.id], <<>>, FALSE)
           [] data.type = "response.output_text.delta" ->
                Step(st, data.delta, FALSE)
           [] data.type = "response.output_item.added" ->
                IF data.item.Type = "function_call" /\ data.item.ID # ""
                THEN Step([st EXCEPT !.toolCalls =
                             Put(st.toolCalls, data.item.ID,
                                 [ID |-> data.item.ID, CallID |-> data.item.CallID,
                                  Name |-> data.item.Name,
                                  Arguments |-> data.item.Arguments])],
                          <<>>, FALSE)
                ELSE Step(st, <<>>, FALSE)
           [] data.type = "response.function_call_arguments.delta" ->
                IF data.item_id \in DOMAIN st.toolCalls
                THEN Step([st EXCEPT !.toolCalls[data.item_id].Arguments =
                             AppendChunk(@, data.delta)], <<>>, FALSE)
                ELSE Step(st, <<>>, FALSE)
           [] OTHER -> Step(st, <<>>, FALSE)

anthropicOnData(st, data) ==
    IF data.kind # "json" THEN Step(st, <<>>, TRUE)
    ELSE CASE data.type = "content_block_start" ->
                IF data.content_block.Type = "tool_use"
                THEN Step([st EXCEPT
                             !.toolCalls = Put(st.toolCalls, data.content_block.ID,
                                 [ID |-> data.content_block.ID,
                                  CallID |-> data.content_block.ID,
                                  Name |-> data.content_block.Name,
                                  Arguments |-> <<>>]),
                             !.activeToolID = data.content_block.ID],
                          <<>>, FALSE)
                ELSE Step(st, <<>>, FALSE)
           [] data.type = "content_block_delta" ->
                IF data.delta.Type = "text_delta"
                THEN Step(st, data.delta.Text, FALSE)
                ELSE IF data.delta.Type = "input_json_delta"
                          /\ st.activeToolID # ""
                          /\ st.activeToolID \in DOMAIN st.toolCalls
                     THEN Step([st EXCEPT !.toolCalls[st.activeToolID].Arguments =
                                  AppendChunk(@, data.delta.Partial)],
                               <<>>, FALSE)
                     ELSE Step(st, <<>>, FALSE)
           [] OTHER -> Step(st, <<>>, FALSE)

\* the parts of all candidates, in the order the nested loops visit them
PartsOf(data) == Concat(data.candidates)

RECURSIVE PartTexts(_)
PartTexts(parts) ==
    IF parts = <<>> THEN <<>> ELSE Head(parts).Text \o PartTexts(Tail(parts))

RECURSIVE PartCalls(_)
PartCalls(parts) ==
    IF parts = <<>> THEN <<>>
    ELSE (IF Head(parts).hasCall
          THEN <<[ID |-> "", CallID |-> "", Name |-> Head(parts).Name,
                  Arguments |-> Marshal(Head(parts).Args)]>>
          ELSE <<>>) \o PartCalls(Tail(parts))

geminiOnData(st, data) ==
    IF data.kind # "json" THEN Step(st, <<>>, TRUE)
    ELSE Step([st EXCEPT !.gcalls = @ \o PartCalls(PartsOf(data))],
              PartTexts(PartsOf(data)), FALSE)

OnDataOf(p, st, data) ==
    CASE p = "openai" -> openAIOnData(st, data)
      [] p = "anthropic" -> anthropicOnData(st, data)
      [] OTHER -> geminiOnData(st, data)

\* ------------------------------------------------- one call, fragmented
\* the characters of the argument strings that are fragmented
ArgChars == {"{", "}", " "}

\* the event that starts the call with the given id, and the event that
\* carries one fragment of its arguments
StartPayload(p, id, name) ==
    IF p = "openai"
    THEN [kind |-> "json", type |-> "response.output_item.added",
          item |-> [ID |-> id, Type |-> "function_call", CallID |-> CallIdOf(id),
                    Name |-> name, Arguments |-> <<>>]]
    ELSE [kind |-> "json", type |-> "content_block_start", index |-> IndexOf(id),
          content_block |-> [Type |-> "tool_use", ID |-> id, Name |-> name]]

DeltaPayload(p, id, chunk) ==
    IF p = "openai"
    THEN [kind |-> "json", type |-> "response.function_call_arguments.delta",
          item_id |-> id, delta |-> chunk]
    ELSE [kind |-> "json", type |-> "content_block_delta", index |-> IndexOf(id),
          delta |-> [Type |-> "input_json_delta", Text |-> <<>>, Partial |-> chunk]]

\* the adapter after the start of call "A", about to receive S in fragments
FrStart(p, S) ==
    [provider |-> p,
     st |-> OnDataOf(p, NewOnce, StartPayload(p, "A", "fs")).st,
     S |-> S, rest |-> S, cuts |-> 0]

FrIdle == FrStart("openai", <<>>)

\* ------------------------------------------------------------ ReadEvents
DataPrefix == <<"d", "a", "t", "a", ":">>

\* the lines of a stream as the scanner returns them: the text of the line,
\* and for a line that starts with the prefix what it carries after the
\* prefix and the padding
Contents == {<<>>, <<"a">>, <<"b">>}
WireLines ==
    {[raw |-> <<>>, kind |-> "blank", content |-> <<>>]}
    \cup {[raw |-> DataPrefix \o lead \o c, kind |-> "data", content |-> c] :
            lead \in {<<>>, <<" ">>}, c \in Contents}
    \cup {[raw |-> r, kind |-> "other", content |-> <<>>] :
            r \in {<<"i", "d", ":", "1">>, <<":">>, <<"d", "a", "t", "a">>}}

\* flush: nothing for an empty buffer, else the buffer is reset and its
\* contents handed to onData
flush(buf) ==
    IF Len(buf) = 0 THEN [buf |-> buf, emit |-> <<>>]
    ELSE [buf |-> <<>>, emit |-> <<buf>>]

\* the buffer after a line that is not blank
addLine(buf, line) ==
    IF HasPrefix(line, DataPrefix)
    THEN LET payload == TrimSpace(TrimPrefix(line, DataPrefix))
         IN  (IF Len(buf) > 0 THEN buf \o <<"\n">> ELSE buf) \o payload
    ELSE buf

\* the state of one ReadEvents call: the buffer, what onData received and
\* what ReadEvents returned ("" while it runs); and of the stream read so
\* far, the contents of the prefixed lines since the last blank line
\* (block), the finished blocks that held a prefixed line (blocks), and the
\* count of lines and of blank lines
RdInit == [buf |-> <<>>, delivered |-> <<>>, ret |-> "",
           block |-> <<>>, blocks |-> <<>>, nlines |-> 0, bno |-> 0]

\* onData is called with what flush emits; its error ends ReadEvents
Deliver(r, f, cbErr, onEnd) ==
    [r EXCEPT !.buf = f.buf,
              !.delivered = @ \o [i \in 1..Len(f.emit) |->
                                    [payload |-> f.emit[i], block |-> r.block,
                                     bno |-> r.bno]],
              !.ret = IF f.emit # <<>> /\ cbErr THEN "callback error" ELSE onEnd]

\* the stream read so far, after one more line or after its end
Wire(r, l) ==
    [r EXCEPT !.nlines = @ + 1,
              !.block = CASE l.kind = "blank" -> <<>>
                          [] l.kind = "data" -> Append(@, l.content)
                          [] OTHER -> @,
              !.blocks = IF l.kind = "blank" /\ r.block # <<>>
                         THEN Append(@, r.block) ELSE @,
              !.bno = IF l.kind = "blank" THEN @ + 1 ELSE @]

WireEnd(r) ==
    [r EXCEPT !.block = <<>>,
              !.blocks = IF r.block # <<>> THEN Append(@, r.block) ELSE @]

\* one iteration of the scan loop
scanLine(r, l, cbErr) ==
    IF l.raw = <<>>
    THEN Wire(Deliver(r, flush(r.buf), cbErr, r.ret), l)
    ELSE Wire([r EXCEPT !.buf = addLine(r.buf, l.raw)], l)

\* the scanner reports an error: it is returned, nothing is flushed
scanErr_flush(r) == [Deliver(r, flush(r.buf), FALSE, "") EXCEPT !.ret = "read error"]

scanErr(r) == [r EXCEPT !.ret = "read error"]

\* the scanner is at the end of the stream: return flush()
scanEnd(r, cbErr) == WireEnd(Deliver(r, flush(r.buf), cbErr, "nil"))

\* ------------------------------------------------------------ executeExec
\* ------------------------------------- argument values and templates
\* every order in which ranging over a Go map may visit its keys
Orders(S) == {s \in [1..Cardinality(S) -> S] :
                \A i, j \in 1..Cardinality(S) : s[i] = s[j] => i = j}

\* strings.ReplaceAll for a non-empty old
RECURSIVE ReplaceAll(_, _, _)
ReplaceAll(s, old, new) ==
    IF s = <<>> THEN <<>>
    ELSE IF IsPrefix(old, s)
    THEN new \o ReplaceAll(SubSeq(s, Len(old) + 1, Len(s)), old, new)
    ELSE <<Head(s)>> \o ReplaceAll(Tail(s), old, new)

\* the decimal digits of a natural number
RECURSIVE Digits(_)
Digits(k) ==
    LET d == <<"0", "1", "2", "3", "4", "5", "6", "7", "8", "9">>[(k % 10) + 1]
    IN  IF k < 10 THEN <<d>> ELSE Digits(k \div 10) \o <<d>>

\* the values of a decoded argument object: strings and numbers
StringValue(s) == [kind |-> "string", v |-> s]
NumberValue(k) == [kind |-> "number", v |-> k]

\* "{{." + key + "}}"
Placeholder(key) == <<"{", "{", ".">> \o key \o <<"}", "}">>

\* the text a value is replaced by: a string as it is, anything else as
\* json.Marshal writes it
ValueText(value) == IF value.kind = "string" THEN value.v ELSE Digits(value.v)

\* the loop of substituteTemplate over the keys in the order the map yields
RECURSIVE SubstituteIn(_, _, _)
SubstituteIn(result, params, order) ==
    IF order = <<>> THEN result
    ELSE SubstituteIn(ReplaceAll(result, Placeholder(Head(order)),
                                 ValueText(params[Head(order)])),
                      params, Tail(order))

\* substituteTemplate: the results it may return; the iteration order of a
\* Go map is not specified
substituteTemplate(template, params) ==
    {SubstituteIn(template, params, o) : o \in Orders(DOMAIN params)}

\* argument keys; "c" is a field no call passes
KeyA == <<"a">>
KeyB == <<"b">>
KeyC == <<"c">>

DigitChars == {"0", "1", "2", "3", "4", "5", "6", "7", "8", "9"}
Letters == {"a", "b", "c", "d", "e", "f", "g", "h", "i", "j", "k", "l", "m", "n", "o", "p", "q", "r", "s", "t", "u", "v", "w", "x", "y", "z", "A", "B", "C", "D", "E", "F", "G", "H", "I", "J", "K", "L", "M", "N", "O", "P", "Q", "R", "S", "T", "U", "V", "W", "X", "Y", "Z"}

\* the number a string of digits writes
RECURSIVE NumberOf(_)
NumberOf(ds) ==
    IF ds = <<>> THEN 0
    ELSE 10 * NumberOf(SubSeq(ds, 1, Len(ds) - 1))
         + (CHOOSE k \in 0..9 : Digits(k) = <<Last(ds)>>)

\* json.Unmarshal of a response body into an interface{}: of the bodies of
\* the model the empty object and the natural numbers are JSON values
Unmarshal(body) ==
    IF body = <<"{", "}">> THEN [ok |-> TRUE, value |-> [kind |-> "object", v |-> <<>>]]
    ELSE IF /\ body # <<>>
            /\ \A i \in 1..Len(body) : body[i] \in DigitChars
            /\ Len(body) = 1 \/ body[1] # "0"
    THEN [ok |-> TRUE, value |-> NumberValue(NumberOf(body))]
    ELSE [ok |-> FALSE, value |-> [kind |-> "nil", v |-> <<>>]]

Nil == [kind |-> "nil", v |-> <<>>]

\* One executeExec call. g is the goroutine that runs cmd.Run ("ready"
\* before cmd.Start, "wait" inside cmd.Wait, "sent" after its send on done);
\* proc the subprocess ("none", "running", "exited", "killed"); Process
\* whether cmd.Process is set; done the buffered channel ("empty", "nil",
\* "err"); timer whether time.After has fired; stdout and stderr the two
\* capture buffers; ret what executeExec returned, <<>> while it runs.
\* tool and params are the tool and the decoded arguments of the call, cmd
\* the command exec.Command was given and started the one cmd.Start ran.
NoCmd == [command |-> <<>>, args |-> <<>>]

ExecTool(command, args) == [Type |-> "exec", Command |-> command, Args |-> args]

ExInit(exists) ==
    [exists |-> exists, g |-> "ready", proc |-> "none", code |-> 0,
     Process |-> FALSE, done |-> "empty", timer |-> FALSE,
     stdout |-> <<>>, stderr |-> <<>>, ret |-> <<>>,
     tool |-> ExecTool(<<>>, <<>>), params |-> <<>>, cmd |-> NoCmd, started |-> NoCmd]

\* the commands executeExec may build: the command and each argument go
\* through substituteTemplate
RECURSIVE SubstituteEach(_, _)
SubstituteEach(args, params) ==
    IF args = <<>> THEN {<<>>}
    ELSE {<<a>> \o rest : a \in substituteTemplate(Head(args), params),
                          rest \in SubstituteEach(Tail(args), params)}

Commands(t, params) ==
    {[command |-> c, args |-> as] :
        c \in substituteTemplate(t.Command, params),
        as \in SubstituteEach(t.Args, params)}

ExIdle == ExInit(TRUE)

\* cmd.Start in the goroutine: a command that cannot be started makes
\* cmd.Run return at once, else the subprocess runs and cmd.Process is set
cmdStart(e) ==
    IF ~e.exists
    THEN [e EXCEPT !.g = "sent", !.done = "err"]
    ELSE [e EXCEPT !.g = "wait", !.proc = "running", !.Process = TRUE,
                   !.started = e.cmd]

\* cmd.Wait returns in the goroutine and the result is sent on done
cmdWait(e) ==
    [e EXCEPT !.g = "sent",
              !.done = IF e.proc = "exited" /\ e.code = 0 THEN "nil" ELSE "err"]

\* err.Error() of what cmd.Run returned
RunError(e) ==
    IF e.proc = "none" THEN <<"executable file not found">> ELSE <<"exit status 1">>

\* the case of the select that receives from done, with the output
\* returned as it was captured
recvDone_raw(e) ==
    [e EXCEPT !.done = "empty",
              !.ret = IF e.done = "err"
                      THEN <<Result(FALSE, <<>>,
                                    IF e.stderr = <<>> THEN RunError(e)
                                    ELSE e.stderr)>>
                      ELSE <<Result(TRUE, StringValue(e.stdout), <<>>)>>]

\* the case of the select that receives from done
recvDone(e) ==
    [e EXCEPT !.done = "empty",
              !.ret = IF e.done = "err"
                      THEN <<Result(FALSE, <<>>,
                                    IF e.stderr = <<>> THEN RunError(e)
                                    ELSE e.stderr)>>
                      ELSE <<Result(TRUE,
                                    IF Unmarshal(e.stdout).ok
                                    THEN Unmarshal(e.stdout).value
                                    ELSE StringValue(e.stdout),
                                    <<>>)>>]

\* the case of the select that receives from time.After: the subprocess is
\* killed when the read of cmd.Process yields it
recvTimeout(e, seen) ==
    [e EXCEPT !.proc = IF seen /\ e.proc = "running" THEN "killed" ELSE e.proc,
              !.ret = <<Result(FALSE, <<>>, "command timed out")>>]

\* what the read of cmd.Process in the timeout case may yield: nil before
\* cmd.Start has set it; afterwards the read races with the write of the
\* goroutine and may yield the process or nil
ProcessSeen(e) == IF e.Process THEN {TRUE, FALSE} ELSE {FALSE}

\* -------------------------------------------------------- registry calls
\* the tools a caller may try to register
ToolDecl(n, t, u, c) == [Name |-> n, Type |-> t, URL |-> u, Command |-> c]
ToolDecls ==
    {ToolDecl(n, "http", u, "") : n \in {"", "ext", "web"}, u \in {"", "u"}}
    \cup {ToolDecl(n, "exec", "", c) : n \in {"", "ext", "web"}, c \in {"", "c"}}
    \cup {ToolDecl(n, t, "", "") : n \in {"", "ext", "web"}, t \in {"builtin", "shell"}}

\* Registry.Register: the error it returns, "" for none
RegisterError_nameOnly(t) == IF t.Name = "" THEN "tool name is required" ELSE ""

RegisterError(t) ==
    IF t.Name = "" THEN "tool name is required"
    ELSE IF t.Type \notin {"http", "exec", "builtin"} THEN "invalid tool type"
    ELSE IF t.Type = "http" /\ t.URL = "" THEN "url is required for http tools"
    ELSE IF t.Type = "exec" /\ t.Command = "" THEN "command is required for exec tools"
    ELSE ""

Register(reg, t) == IF RegisterError(t) = "" THEN Put(reg, t.Name, t) ELSE reg

\* the entries a tool declaration file may hold
FileDecls ==
    {ToolDecl("", "http", "u", ""), ToolDecl("ext", "http", "u", ""),
     ToolDecl("ext", "http", "", ""), ToolDecl("ext", "exec", "", "c"),
     ToolDecl("web", "exec", "", ""), ToolDecl("web", "shell", "", ""),
     ToolDecl("fs", "exec", "", "c")}

\* a tool declaration file: absent, unreadable, not JSON, or a list of entries
NoFile == [state |-> "missing", tools |-> <<>>]
PluginFiles ==
    {[state |-> st, tools |-> <<>>] : st \in {"missing", "unreadable", "malformed"}}
    \cup {[state |-> "ok", tools |-> ts] : ts \in Strings(FileDecls, MaxFile)}

\* the loop of LoadFromFile over the entries of the file
RECURSIVE RegisterAll(_, _)
RegisterAll(reg, ts) ==
    IF ts = <<>> THEN reg ELSE RegisterAll(Register(reg, Head(ts)), Tail(ts))

\* the registry LoadFromFile builds from the entries of a file
LoadEntries_untilInvalid(ts) ==
    RegisterAll(<<>>, SubSeq(ts, 1,
        CHOOSE k \in 0..Len(ts) :
            /\ \A i \in 1..k : RegisterError(ts[i]) = ""
            /\ k < Len(ts) => RegisterError(ts[k + 1]) # ""))

LoadEntries(ts) == RegisterAll(<<>>, ts)

\* LoadFromFile: the registry and the error it returns ("" for none)
LoadFromFile(f) ==
    CASE f.state = "missing" -> [reg |-> <<>>, err |-> ""]
      [] f.state = "unreadable" -> [reg |-> <<>>, err |-> "read error"]
      [] f.state = "malformed" -> [reg |-> <<>>, err |-> "json error"]
      [] OTHER -> [reg |-> LoadEntries(f.tools), err |-> ""]

\* LoadWithBuiltins over the default file: the built-in tool is stored
\* under its name after the file has been loaded
LoadDefaultWithBuiltins(f) ==
    IF LoadFromFile(f).err # "" THEN LoadFromFile(f)
    ELSE [reg |-> Put(LoadFromFile(f).reg, FSToolName, BuiltinFS), err |-> ""]

\* the inputs a caller may pass to a tool
Inputs == {<<>>, <<"{", "}">>, <<"}">>}

\* a registry with the call made on it last: the operation, its arguments,
\* the result, whether the executor of a tool was entered, and the tools
\* before the call
NoCall == [op |-> "", name |-> "", input |-> <<>>, res |-> Result(TRUE, "", ""),
           ran |-> FALSE, before |-> <<>>, decl |-> ToolDecl("", "", "", ""),
           file |-> NoFile]
RgInit(reg) == [tools |-> reg, last |-> NoCall]

RgIdle == RgInit(<<>>)

\* ------------------------------------------------ the built-in fs tool
\* Paths are sequences of names below the working directory; the empty
\* sequence is the empty path string. The storage maps the paths that exist
\* to a directory or to a file with its contents.
FsPaths == {<<"f">>, <<"d">>, <<"d", "g">>, <<"f", "g">>}
FsData == {<<>>, <<"x">>}
FsOps == {"read", "write", "append", "delete", "mkdir", "rmdir", "list", "stat",
          "move", "copy"}

FSRequest(op, path, data, dest) == [Op |-> op, Path |-> path, Data |-> data, Dest |-> dest]

\* the requests a caller may make; fields an operation does not use are empty
FsRequests ==
    {FSRequest(op, p, <<>>, <<>>) :
        op \in {"read", "delete", "mkdir", "rmdir", "list", "stat", "chmod"},
        p \in FsPaths \cup {<<>>}}
    \cup {FSRequest(op, p, d, <<>>) :
            op \in {"write", "append"}, p \in FsPaths \cup {<<>>}, d \in FsData}
    \cup {FSRequest(op, p, <<>>, q) :
            op \in {"move", "copy"}, p \in FsPaths \cup {<<>>}, q \in FsPaths \cup {<<>>}}

File(d) == [dir |-> FALSE, data |-> d]
Directory == [dir |-> TRUE, data |-> <<>>]

\* filepath.Dir
Dir(p) == SubSeq(p, 1, Len(p) - 1)

IsDir(nodes, p) == p = <<>> \/ (p \in DOMAIN nodes /\ nodes[p].dir)
IsFile(nodes, p) == p \in DOMAIN nodes /\ ~nodes[p].dir
Children(nodes, p) == {q \in DOMAIN nodes : Len(q) = Len(p) + 1 /\ IsPrefix(p, q)}
Prefixes(p) == {SubSeq(p, 1, k) : k \in 1..Len(p)}

\* what an operation yields: the storage after it, the result, and the
\* calls it made on the storage
FsOut(nodes, ok, data, error, sys) ==
    [nodes |-> nodes, res |-> Result(ok, data, error), sys |-> sys]

\* a storage call either goes through, when the storage allows it, or fails
\* with the message of the operating system and changes nothing
OsCall(nodes, allowed, after, data, sys) ==
    {FsOut(nodes, FALSE, "", "os error", sys)}
    \cup (IF allowed THEN {FsOut(after, TRUE, data, "", sys)} ELSE {})

PathRequired(nodes) == {FsOut(nodes, FALSE, "", "path is required", <<>>)}

readFile(nodes, path) ==
    IF path = <<>> THEN PathRequired(nodes)
    ELSE OsCall(nodes, IsFile(nodes, path), nodes,
                IF IsFile(nodes, path) THEN nodes[path].data ELSE "",
                <<"ReadFile">>)

writeFile(nodes, path, data) ==
    IF path = <<>> THEN PathRequired(nodes)
    ELSE OsCall(nodes, IsDir(nodes, Dir(path)) /\ ~IsDir(nodes, path),
                Put(nodes, path, File(data)), "", <<"WriteFile">>)

appendFile(nodes, path, data) ==
    IF path = <<>> THEN PathRequired(nodes)
    ELSE OsCall(nodes, IsDir(nodes, Dir(path)) /\ ~IsDir(nodes, path),
                Put(nodes, path,
                    File((IF IsFile(nodes, path) THEN nodes[path].data ELSE <<>>)
                         \o data)),
                "", <<"OpenFile", "WriteString">>)

\* the storage without p and everything below it
Without(nodes, p) == [q \in {r \in DOMAIN nodes : ~IsPrefix(p, r)} |-> nodes[q]]

\* a removal that does not look at the path
removeAll_unchecked(nodes, path) ==
    OsCall(nodes, TRUE, Without(nodes, path), "", <<"RemoveAll">>)

removeAll(nodes, path) ==
    IF path = <<>> THEN PathRequired(nodes)
    ELSE OsCall(nodes, TRUE, Without(nodes, path), "", <<"RemoveAll">>)

\* os.MkdirAll: the path and the parents that are missing become directories
MkdirAllowed(nodes, p) == \A q \in Prefixes(p) : ~IsFile(nodes, q)
MkdirAll(nodes, p) ==
    [q \in DOMAIN nodes \cup Prefixes(p) |->
        IF q \in DOMAIN nodes THEN nodes[q] ELSE Directory]

makeDir(nodes, path) ==
    IF path = <<>> THEN PathRequired(nodes)
    ELSE OsCall(nodes, MkdirAllowed(nodes, path), MkdirAll(nodes, path), "",
                <<"MkdirAll">>)

removeDir(nodes, path) ==
    IF path = <<>> THEN PathRequired(nodes)
    ELSE OsCall(nodes, path \in DOMAIN nodes /\ Children(nodes, path) = {},
                Without(nodes, path), "", <<"Remove">>)

\* an empty path lists the working directory
listDir(nodes, path) ==
    OsCall(nodes, IsDir(nodes, path), nodes,
           {[Name |-> Last(q), IsDir |-> nodes[q].dir] : q \in Children(nodes, path)},
           <<"ReadDir">>)

statPath(nodes, path) ==
    IF path = <<>> THEN PathRequired(nodes)
    ELSE OsCall(nodes, path \in DOMAIN nodes, nodes,
                IF path \in DOMAIN nodes
                THEN [Path |-> path, IsDir |-> nodes[path].dir,
                      Size |-> Len(nodes[path].data)]
                ELSE "",
                <<"Stat">>)

PathAndDestRequired(nodes) ==
    {FsOut(nodes, FALSE, "", "path and dest are required", <<>>)}

\* os.Rename: the source and what is below it move to the destination
RenameAllowed(nodes, src, dst) ==
    /\ src \in DOMAIN nodes
    /\ IsDir(nodes, Dir(dst))
    /\ src = dst \/ ~IsPrefix(src, dst)
    /\ \/ dst \notin DOMAIN nodes
       \/ src = dst
       \/ IsFile(nodes, src) /\ IsFile(nodes, dst)
       \/ IsDir(nodes, src) /\ IsDir(nodes, dst) /\ Children(nodes, dst) = {}
    /\ \A q \in DOMAIN nodes :
          IsPrefix(src, q) => dst \o SubSeq(q, Len(src) + 1, Len(q)) \in FsPaths

Rename(nodes, src, dst) ==
    IF src = dst THEN nodes
    ELSE LET moved == {q \in DOMAIN nodes : IsPrefix(src, q)}
             to(q) == dst \o SubSeq(q, Len(src) + 1, Len(q))
             kept == {q \in DOMAIN nodes : ~IsPrefix(src, q) /\ ~IsPrefix(dst, q)}
         IN  [q \in kept \cup {to(r) : r \in moved} |->
                IF q \in kept THEN nodes[q]
                ELSE nodes[CHOOSE r \in moved : to(r) = q]]

movePath(nodes, src, dst) ==
    IF src = <<>> \/ dst = <<>> THEN PathAndDestRequired(nodes)
    ELSE OsCall(nodes, RenameAllowed(nodes, src, dst), Rename(nodes, src, dst), "",
                <<"Rename">>)

\* the test that refuses to copy a directory
CopiesDir_never(nodes, src) == FALSE

CopiesDir(nodes, src) == IsDir(nodes, src)

\* copyPath: Stat, the directory test, MkdirAll of the parent of the
\* destination, Open, Create (which empties the destination), Copy
copyPath(nodes, src, dst) ==
    IF src = <<>> \/ dst = <<>> THEN PathAndDestRequired(nodes)
    ELSE IF src \notin DOMAIN nodes
    THEN {FsOut(nodes, FALSE, "", "os error", <<"Stat">>)}
    ELSE IF CopiesDir(nodes, src)
         THEN {FsOut(nodes, FALSE, "", "copy supports files only", <<"Stat">>)}
         ELSE IF ~MkdirAllowed(nodes, Dir(dst))
         THEN {FsOut(nodes, FALSE, "", "os error", <<"Stat", "MkdirAll">>)}
         ELSE LET made == MkdirAll(nodes, Dir(dst)) IN
              IF ~IsFile(made, src) \/ IsDir(made, dst)
              THEN {FsOut(made, FALSE, "", "os error",
                          <<"Stat", "MkdirAll", "Open", "Create">>)}
              ELSE LET emptied == Put(made, dst, File(<<>>)) IN
                   {FsOut(made, FALSE, "", "os error",
                          <<"Stat", "MkdirAll", "Open", "Create">>),
                    FsOut(Put(made, dst, File(emptied[src].data)), TRUE, "", "",
                          <<"Stat", "MkdirAll", "Open", "Create", "Copy">>)}

\* tool.FS: the outcomes of a request on the storage
FS(nodes, req) ==
    CASE req.Op = "read" -> readFile(nodes, req.Path)
      [] req.Op = "write" -> writeFile(nodes, req.Path, req.Data)
      [] req.Op = "append" -> appendFile(nodes, req.Path, req.Data)
      [] req.Op = "delete" -> removeAll(nodes, req.Path)
      [] req.Op = "mkdir" -> makeDir(nodes, req.Path)
      [] req.Op = "rmdir" -> removeDir(nodes, req.Path)
      [] req.Op = "list" -> listDir(nodes, req.Path)
      [] req.Op = "stat" -> statPath(nodes, req.Path)
      [] req.Op = "move" -> movePath(nodes, req.Path, req.Dest)
      [] req.Op = "copy" -> copyPath(nodes, req.Path, req.Dest)
      [] OTHER -> {FsOut(nodes, FALSE, "", "unknown op", <<>>)}

\* an empty working directory, no request made yet
FsInit ==
    [nodes |-> <<>>, req |-> FSRequest("", <<>>, <<>>, <<>>),
     res |-> Result(TRUE, "", ""), sys |-> <<>>]

FsIdle == FsInit

\* ------------------------------------------------------------ executeHTTP
\* no call of executeHTTP, substituteTemplate or logToolResult is under way
HtIdle == [pc |-> "idle"]
SbIdle == [pc |-> "idle"]
LgIdle == [pc |-> "idle"]
CfIdle == [pc |-> "idle"]

\* ------------------------------------------------------------------ state
VARIABLES
    provider,     \* cfg.Provider of the Client
    env,          \* names of the environment variables that are set
    tools,        \* the plugin registry handed to the Client
    stderrOn,     \* the diagnostics writer is not nil
    pc,           \* "idle", "request", "streaming", "exec", "done"
    round,        \* 0 before the first request, then 1 or 2
    input,        \* the turns of the request about to be sent
    previousID,   \* previous_response_id of the request about to be sent
    requests,     \* requests handed to httpClient.Do, in order
    once,         \* state of the running StreamOnce call
    calls,        \* the slice StreamOnce returned to StreamLoop in round 1
    savedID,      \* the responseID StreamOnce returned in round 1
    idx,          \* position of the loop over calls
    toolMessages, \* result entries built for the continuation request
    out,          \* bytes on the output sink
    diag,         \* lines on the diagnostics sink
    err,          \* what Stream returned ("" while running, "nil" for success)
    n,            \* payloads delivered so far
    reply,        \* the response httpClient.Do returned last
    ctx,          \* the context of the run, with what the scanner held
                  \* buffered when it was cancelled
    texts,        \* history: text deltas decoded, per round
    started,      \* history: keys of the round-1 calls in first-start order
    sent,         \* history: fragments addressed to each call since its start
    executed,     \* history: calls handed to ExecuteTool, with their results
    skipped,      \* history: calls the loop skipped
    orphans,      \* history: ids that got a fragment before any start
    ended,        \* history: rounds whose stream ended without error
    fr,           \* one started call receiving the fragments of a string
    rd,           \* one ReadEvents call over a stream of lines
    ex,           \* one executeExec call with its goroutine and subprocess
    rg,           \* a plugin registry and the result of the last call on it
    fsys,         \* the storage under the working directory and the last
                  \* request to the built-in filesystem tool
    ht,           \* one executeHTTP call: the tool, the arguments, the
                  \* environment, the request sent and the result
    sb,           \* one substituteTemplate call: template, params, result
    lg,           \* one logToolResult call: its arguments and the sink
    cf            \* one config.Load call: command line, environment, file,
                  \* and what Load returned

vars == <<provider, env, tools, stderrOn, pc, round, input, previousID,
          requests, once, calls, savedID, idx, toolMessages, out, diag, err, n,
          reply, ctx, texts, started, sent, executed, skipped, orphans, ended,
          fr, rd, ex, rg, fsys, ht, sb, lg, cf>>

config == <<provider, env, tools, stderrOn>>
\* the variables of a run of Client.Stream
run == <<provider, env, tools, stderrOn, pc, round, input, previousID,
         requests, once, calls, savedID, idx, toolMessages, out, diag, err, n,
         reply, ctx, texts, started, sent, executed, skipped, orphans, ended>>
\* the state of the components that are exercised on their own
parts == <<fr, rd, ex, rg, fsys, ht, sb, lg, cf>>
history == <<texts, started, sent, executed, skipped, orphans, ended>>

\* the environments a run may start in: no credential, or one of them
Envs == {{}} \cup {{k} : k \in {"OPENAI_API_KEY", "ANTHROPIC_API_KEY",
                                 "GEMINI_API_KEY", "GOOGLE_API_KEY"}}

\* the variables an adapter reads for its credential, in order
KeyVars(p) ==
    CASE p = "openai" -> <<"OPENAI_API_KEY">>
      [] p = "anthropic" -> <<"ANTHROPIC_API_KEY">>
      [] OTHER -> <<"GEMINI_API_KEY", "GOOGLE_API_KEY">>

\* the credential the adapter of p finds in the environment, "" for none
apiKey_anyVar(e, p) == IF e # {} THEN "secret" ELSE ""

apiKey(e, p) ==
    IF \E i \in 1..Len(KeyVars(p)) : KeyVars(p)[i] \in e THEN "secret" ELSE ""

\* what the remote service may answer: the stream, or a refusal with a body
Bodies == {"invalid api key", "overloaded"}
Responses ==
    {[StatusCode |-> 200, Body |-> "stream"]}
    \cup {[StatusCode |-> c, Body |-> b] : c \in {300, 404}, b \in Bodies}
NoResponse == [StatusCode |-> 0, Body |-> ""]

\* context.Background(): not cancelled
Background == [done |-> FALSE, at |-> "", ahead |-> 0, eof |-> FALSE]

Turn(role, kind, results) == [role |-> role, kind |-> kind, results |-> results]

\* no component is exercised on its own
PartsIdle ==
    /\ fr = FrIdle /\ rd = RdInit /\ ex = ExIdle /\ rg = RgIdle
    /\ fsys = FsIdle /\ ht = HtIdle /\ sb = SbIdle /\ lg = LgIdle
    /\ cf = CfIdle

\* Client.Stream has not been called
Fresh ==
    /\ pc = "idle"
    /\ round = 0
    /\ input = <<>>
    /\ previousID = ""
    /\ requests = <<>>
    /\ once = NewOnce
    /\ calls = <<>>
    /\ savedID = ""
    /\ idx = 0
    /\ toolMessages = <<>>
    /\ out = <<>>
    /\ diag = <<>>
    /\ err = ""
    /\ n = 0
    /\ reply = NoResponse
    /\ ctx = Background
    /\ texts = [r \in {1, 2} |-> <<>>]
    /\ started = <<>>
    /\ sent = <<>>
    /\ executed = <<>>
    /\ skipped = <<>>
    /\ orphans = {}
    /\ ended = {}

Init ==
    /\ provider \in Providers \cup {"bogus"}
    /\ env \in Envs
    /\ tools \in {LoadWithBuiltins("http"), LoadWithBuiltins("exec")}
    /\ stderrOn = TRUE
    /\ Fresh
    /\ PartsIdle

\* Stream returns e
Return_goesOn(e) == pc' = pc /\ err' = e

Return(e) == pc' = "done" /\ err' = e

\* the first request of each provider
InitialInput(p) ==
    CASE p = "openai" -> <<Turn("system", "instruction", <<>>), Turn("user", "prompt", <<>>)>>
      [] OTHER -> <<Turn("user", "prompt", <<>>)>>

\* Client.Stream with streamOpenAI / streamAnthropic / streamGemini up to the
\* call of the stream loop
Stream ==
    /\ pc = "idle"
    /\ IF provider \notin Providers
       THEN Return("unknown provider") /\ UNCHANGED <<round, input>>
       ELSE IF apiKey(env, provider) = ""
            THEN Return("missing key") /\ UNCHANGED <<round, input>>
            ELSE /\ pc' = "request"
                 /\ round' = 1
                 /\ input' = InitialInput(provider)
                 /\ err' = err
    /\ UNCHANGED <<config, previousID, requests, once, calls, savedID, idx,
                   toolMessages, out, diag, n, reply, ctx, history, parts>>

\* StreamOnce up to the status test: the request is built and handed to
\* httpClient.Do; the transport may fail, the service may answer with a
\* non-success status or open the stream
\* the status test of StreamOnce
Failed_from400(resp) == resp.StatusCode >= 400

Failed(resp) == resp.StatusCode >= 300

\* the error StreamOnce makes of a refused request: errors.New(string(body))
StatusError(resp) == resp.Body

Do ==
    /\ pc = "request"
    /\ requests' = Append(requests, [provider |-> provider, input |-> input,
                                     previousID |-> previousID,
                                     live |-> ~ctx.done])
    /\ IF ctx.done
       THEN Return("context canceled") /\ UNCHANGED <<once, sent, orphans, reply>>
       ELSE \E resp \in Responses \cup {NoResponse} :
              /\ reply' = resp
              /\ IF resp = NoResponse
                 THEN Return("transport") /\ UNCHANGED <<once, sent, orphans>>
                 ELSE IF Failed(resp)
                      THEN Return(StatusError(resp))
                           /\ UNCHANGED <<once, sent, orphans>>
                      ELSE /\ pc' = "streaming" /\ err' = err
                           /\ once' = NewOnce /\ sent' = <<>> /\ orphans' = {}
    /\ UNCHANGED <<config, round, input, previousID, calls, savedID, idx,
                   toolMessages, out, diag, n, ctx, texts, started, executed,
                   skipped, ended, parts>>

\* what a payload says on the wire, independently of what the adapter does
\* with it: the keys of the calls it starts (item id, block id, or function
\* name for Gemini, whose calls carry no id) ...
StartKeys(p, data) ==
    IF data.kind # "json" THEN <<>>
    ELSE CASE p = "openai" ->
                IF data.type = "response.output_item.added"
                     /\ data.item.Type = "function_call" /\ data.item.ID # ""
                THEN <<data.item.ID>> ELSE <<>>
           [] p = "anthropic" ->
                IF data.type = "content_block_start"
                     /\ data.content_block.Type = "tool_use"
                THEN <<data.content_block.ID>> ELSE <<>>
           [] OTHER -> [i \in 1..Len(PartCalls(PartsOf(data))) |->
                          PartCalls(PartsOf(data))[i].Name]

\* ... the text delta it carries ...
TextDelta(p, data) ==
    IF data.kind # "json" THEN <<>>
    ELSE CASE p = "openai" ->
                IF data.type = "response.output_text.delta" THEN data.delta ELSE <<>>
           [] p = "anthropic" ->
                IF data.type = "content_block_delta" /\ data.delta.Type = "text_delta"
                THEN data.delta.Text ELSE <<>>
           [] OTHER -> PartTexts(PartsOf(data))

\* ... and the call an argument fragment identifies, with its chunk
Fragments(p, data) ==
    IF data.kind # "json" THEN {}
    ELSE CASE p = "openai" ->
                IF data.type = "response.function_call_arguments.delta"
                THEN {[id |-> data.item_id, chunk |-> data.delta]} ELSE {}
           [] p = "anthropic" ->
                IF data.type = "content_block_delta"
                     /\ data.delta.Type = "input_json_delta"
                THEN {[id |-> i, chunk |-> data.delta.Partial] :
                        i \in {j \in Ids : IndexOf(j) = data.index}}
                ELSE {}
           [] OTHER -> {}

RECURSIVE AppendNew(_, _)
AppendNew(s, ks) ==
    IF ks = <<>> THEN s
    ELSE AppendNew(IF \E i \in 1..Len(s) : s[i] = Head(ks) THEN s
                   ELSE Append(s, Head(ks)), Tail(ks))

StartedAfter(p, s, data) ==
    IF p = "gemini" THEN s \o StartKeys(p, data) ELSE AppendNew(s, StartKeys(p, data))

SentAfter(p, m, data) ==
    LET ks == StartKeys(p, data)
        m1 == IF p # "gemini" /\ ks # <<>> THEN Put(m, ks[1], <<>>) ELSE m
    IN  [k \in DOMAIN m1 |->
            IF \E f \in Fragments(p, data) : f.id = k
            THEN m1[k] \o (CHOOSE f \in Fragments(p, data) : f.id = k).chunk
            ELSE m1[k]]

\* writer.WriteString followed by writer.Flush, skipped for an empty delta
WriteText_framed(o, t) == IF t = <<>> THEN o ELSE o \o t \o <<"\n">>

WriteText_overwrite(o, t) == IF t = <<>> THEN o ELSE t

WriteText(o, t) == IF t = <<>> THEN o ELSE o \o t

\* ReadEvents hands the next payload to the adapter's callback
OnData ==
    /\ pc = "streaming"
    /\ n < MaxPayloads
    /\ ctx.done => ctx.ahead > 0
    /\ ctx' = IF ctx.done THEN [ctx EXCEPT !.ahead = @ - 1] ELSE ctx
    /\ \E data \in Payloads(provider) :
        LET d == OnDataOf(provider, once, data) IN
        /\ Len(d.st.gcalls) <= MaxCalls
        /\ n' = n + 1
        /\ IF d.err
           THEN /\ Return("decode")
                /\ UNCHANGED <<once, out, texts, started, sent, orphans>>
           ELSE /\ once' = d.st
                /\ out' = WriteText(out, d.write)
                /\ texts' = [texts EXCEPT ![round] = @ \o TextDelta(provider, data)]
                /\ started' = IF round = 1 THEN StartedAfter(provider, started, data)
                              ELSE started
                /\ sent' = SentAfter(provider, sent, data)
                /\ orphans' = orphans \cup
                      {f.id : f \in {g \in Fragments(provider, data) :
                                        g.id \notin DOMAIN sent}}
                /\ UNCHANGED <<pc, err>>
    /\ UNCHANGED <<config, round, input, previousID, requests, calls, savedID,
                   idx, toolMessages, diag, reply, executed, skipped, ended,
                   parts>>

\* the scanner fails while reading the body: ReadEvents returns the error
\* without flushing what it buffered
ScanErr ==
    /\ pc = "streaming"
    /\ ctx.done => (ctx.ahead = 0 /\ ~ctx.eof)
    /\ Return(IF ctx.done THEN "context canceled" ELSE "read")
    /\ UNCHANGED <<config, round, input, previousID, requests, once, calls,
                   savedID, idx, toolMessages, out, diag, n, reply, ctx, history,
                   parts>>

\* the slices StreamOnce may return for the accumulated calls
Finalized(p, st) ==
    IF p = "gemini" THEN {st.gcalls}
    ELSE {[i \in 1..Len(o) |-> st.toolCalls[o[i]]] : o \in Orders(DOMAIN st.toolCalls)}

\* the stream ends: ReadEvents returns nil and StreamOnce returns the calls.
\* In round 1 StreamLoop goes on to the tool loop unless there is no call;
\* in round 2 it discards the calls and returns.
StreamEndFor(loopRounds) ==
    /\ pc = "streaming"
    /\ ctx.done => (ctx.ahead = 0 /\ ctx.eof)
    /\ IF round \in loopRounds
       THEN \E cs \in Finalized(provider, once) :
              /\ calls' = cs
              /\ savedID' = once.responseID
              /\ IF Len(cs) = 0
                 THEN Return("nil") /\ idx' = idx
                 ELSE pc' = "exec" /\ idx' = 1 /\ err' = err
       ELSE Return("nil") /\ UNCHANGED <<calls, savedID, idx>>
    /\ ended' = ended \cup {round}
    /\ UNCHANGED <<config, round, input, previousID, requests, once,
                   toolMessages, out, diag, n, reply, ctx, texts, started, sent,
                   executed, skipped, orphans, parts>>

StreamEnd_everyRound == StreamEndFor({1, 2})

StreamEnd == StreamEndFor({1})

KeyOf(p, call) == IF p = "gemini" THEN call.Name ELSE call.ID

\* the key under which the continuation request addresses a result
AddrOf(p, call) ==
    CASE p = "openai" -> call.CallID
      [] p = "anthropic" -> call.ID
      [] OTHER -> call.Name

ToolMessage_dataOnly(p, call, res) ==
    [type |-> CASE p = "openai" -> "function_call_output"
                [] p = "anthropic" -> "tool_result"
                [] OTHER -> "functionResponse",
     addr |-> AddrOf(p, call),
     output |-> <<<<"data", res.Data>>>>]

ToolMessage(p, call, res) ==
    [type |-> CASE p = "openai" -> "function_call_output"
                [] p = "anthropic" -> "tool_result"
                [] OTHER -> "functionResponse",
     addr |-> AddrOf(p, call),
     output |-> ToJSON(res)]

\* one iteration of the loop over the calls: a call to an unregistered name is
\* skipped, any other is executed, logged and its result appended
LoopStep ==
    /\ pc = "exec"
    /\ idx <= Len(calls)
    /\ LET call == calls[idx] IN
       IF ~Get(tools, call.Name)
       THEN /\ skipped' = Append(skipped, [pos |-> idx, key |-> KeyOf(provider, call)])
            /\ UNCHANGED <<toolMessages, diag, executed>>
       ELSE \E res \in ExecuteTool(tools, call.Name, call.Arguments) :
            /\ executed' = Append(executed, [pos |-> idx, key |-> KeyOf(provider, call),
                                             name |-> call.Name,
                                             input |-> call.Arguments, res |-> res])
            /\ diag' = diag \o logToolResult(stderrOn, provider, call.Name,
                                             call.Arguments, res)
            /\ toolMessages' = Append(toolMessages, ToolMessage(provider, call, res))
            /\ skipped' = skipped
    /\ idx' = idx + 1
    /\ UNCHANGED <<config, pc, round, input, previousID, requests, once, calls,
                   savedID, out, err, n, reply, ctx, texts, started, sent,
                   orphans, ended, parts>>

\* the input of the continuation request
Continuation_replay(p, in, msgs) ==
    CASE p = "openai" -> in \o msgs
      [] p = "anthropic" -> in \o <<Turn("user", "tool_results", msgs)>>
      [] OTHER -> in \o <<Turn("function", "function_responses", msgs)>>

Continuation(p, in, msgs) ==
    CASE p = "openai" -> msgs
      [] p = "anthropic" -> in \o <<Turn("user", "tool_results", msgs)>>
      [] OTHER -> in \o <<Turn("function", "function_responses", msgs)>>

\* the test that ends the run after the loop
NoResults_never(msgs) == FALSE

NoResults(msgs) == Len(msgs) = 0

\* after the loop: return when no result was produced, else go on to the
\* second StreamOnce call
LoopEnd ==
    /\ pc = "exec"
    /\ idx > Len(calls)
    /\ IF NoResults(toolMessages)
       THEN Return("nil") /\ UNCHANGED <<round, input, previousID>>
       ELSE /\ pc' = "request"
            /\ round' = 2
            /\ input' = Continuation(provider, input, toolMessages)
            /\ previousID' = IF provider = "openai" THEN savedID ELSE previousID
            /\ err' = err
    /\ UNCHANGED <<config, requests, once, calls, savedID, idx, toolMessages,
                   out, diag, n, reply, ctx, history, parts>>

Next == Stream \/ Do \/ OnData \/ ScanErr \/ StreamEnd \/ LoopStep \/ LoopEnd

Spec == Init /\ [][Next]_vars

\* The run under the conditions of termination: the service ends each
\* stream after finitely many payloads, every tool execution returns (an
\* HTTP or subprocess tool at the latest when its timeout expires), and the
\* goroutine of Stream is scheduled as long as it has a step to take.
SpecLive == Init /\ [][Next]_vars /\ WF_vars(Next)

\* The context of the run is cancelled or its deadline passes. The body
\* fails every read from then on, but the scanner first returns the lines
\* it holds in its buffer: some payloads of the stream, and maybe its end.
Cancel ==
    /\ pc \in {"request", "streaming", "exec"}
    /\ ~ctx.done
    /\ \E k \in 0..MaxAhead, e \in BOOLEAN :
          /\ pc # "streaming" => (k = 0 /\ ~e)
          /\ k <= MaxPayloads - n
          /\ ctx' = [done |-> TRUE, at |-> pc, ahead |-> k, eof |-> e]
    /\ UNCHANGED <<config, pc, round, input, previousID, requests, once, calls,
                   savedID, idx, toolMessages, out, diag, err, n, reply, history,
                   parts>>

NextCancel ==
    Stream \/ Do \/ OnData \/ ScanErr \/ StreamEnd \/ LoopStep \/ LoopEnd
        \/ Cancel

\* a run whose context may be cancelled
SpecCancel == Init /\ [][NextCancel]_vars

\* a Client that is never asked to stream
NoRun ==
    /\ provider = "openai" /\ env = {} /\ stderrOn = TRUE
    /\ tools = LoadWithBuiltins("http")
    /\ Fresh

\* ------------------------------------------- one call, fragmented: steps
InitFragments ==
    /\ NoRun
    /\ fr \in {FrStart(p, S) : p \in {"openai", "anthropic"},
                                S \in Strings(ArgChars, MaxLen)}
    /\ rd = RdInit /\ ex = ExIdle /\ rg = RgIdle
    /\ fsys = FsIdle /\ ht = HtIdle /\ sb = SbIdle /\ lg = LgIdle
    /\ cf = CfIdle

\* the next fragment of S arrives: any prefix of what is left, the empty
\* one included
Fragment ==
    /\ fr.cuts <= Len(fr.S)
    /\ \E k \in 0..Len(fr.rest) :
          fr' = [fr EXCEPT
                   !.st = OnDataOf(fr.provider, fr.st,
                                   DeltaPayload(fr.provider, "A",
                                                SubSeq(fr.rest, 1, k))).st,
                   !.rest = SubSeq(fr.rest, k + 1, Len(fr.rest)),
                   !.cuts = @ + 1]
    /\ UNCHANGED <<run, rd, ex, rg, fsys, ht, sb, lg, cf>>

\* the events without a fragment that may come between two fragments
Fillers(p) ==
    {d \in Payloads(p) : d # BAD /\ StartKeys(p, d) = <<>> /\ Fragments(p, d) = {}}

\* an event that carries no fragment arrives
Filler ==
    /\ \E d \in Fillers(fr.provider) :
          fr' = [fr EXCEPT !.st = OnDataOf(fr.provider, fr.st, d).st]
    /\ UNCHANGED <<run, rd, ex, rg, fsys, ht, sb, lg, cf>>

NextFragments == Fragment \/ Filler

SpecFragments == InitFragments /\ [][NextFragments]_vars

\* ----------------------------------------------------- ReadEvents: steps
InitReader ==
    /\ NoRun
    /\ rd = RdInit
    /\ fr = FrIdle /\ ex = ExIdle /\ rg = RgIdle
    /\ fsys = FsIdle /\ ht = HtIdle /\ sb = SbIdle /\ lg = LgIdle
    /\ cf = CfIdle

\* scanner.Scan returns a line
ScanLine ==
    /\ rd.ret = ""
    /\ rd.nlines < MaxLines
    /\ \E l \in WireLines, cbErr \in BOOLEAN : rd' = scanLine(rd, l, cbErr)
    /\ UNCHANGED <<run, fr, ex, rg, fsys, ht, sb, lg, cf>>

\* scanner.Scan returns false and scanner.Err an error
ScanFail ==
    /\ rd.ret = ""
    /\ rd' = scanErr(rd)
    /\ UNCHANGED <<run, fr, ex, rg, fsys, ht, sb, lg, cf>>

\* scanner.Scan returns false at the end of the stream
ScanEOF ==
    /\ rd.ret = ""
    /\ \E cbErr \in BOOLEAN : rd' = scanEnd(rd, cbErr)
    /\ UNCHANGED <<run, fr, ex, rg, fsys, ht, sb, lg, cf>>

NextReader == ScanLine \/ ScanFail \/ ScanEOF

SpecReader == InitReader /\ [][NextReader]_vars

\* ---------------------------------------------------- executeExec: steps
\* exec tools and the decoded arguments of a call
ExecTools ==
    {ExecTool(c, as) : c \in {<<"s", "h">>, Placeholder(KeyA)},
                       as \in {<<>>, <<<<"-", "c">>, Placeholder(KeyA)>>}}
ExecParams == {KeyA :> StringValue(<<"v">>), KeyA :> NumberValue(42)}

InitExec ==
    /\ NoRun
    /\ ex \in {[ExInit(exists) EXCEPT !.g = "new", !.tool = t, !.params = ps] :
                exists \in BOOLEAN, t \in ExecTools, ps \in ExecParams}
    /\ fr = FrIdle /\ rd = RdInit /\ rg = RgIdle
    /\ fsys = FsIdle /\ ht = HtIdle /\ sb = SbIdle /\ lg = LgIdle
    /\ cf = CfIdle

\* executeExec substitutes the arguments, builds the command and starts
\* the goroutine
Command ==
    /\ ex.g = "new"
    /\ \E c \in Commands(ex.tool, ex.params) : ex' = [ex EXCEPT !.g = "ready", !.cmd = c]
    /\ UNCHANGED <<run, fr, rd, rg, fsys, ht, sb, lg, cf>>

\* the goroutine starts the command
GoStart ==
    /\ ex.g = "ready"
    /\ ex' = cmdStart(ex)
    /\ UNCHANGED <<run, fr, rd, rg, fsys, ht, sb, lg, cf>>

\* the subprocess writes to its standard output or standard error
ProcWrite ==
    /\ ex.proc = "running"
    /\ Len(ex.stdout) + Len(ex.stderr) < MaxOut
    /\ \/ \E c \in {"7", "o"} : ex' = [ex EXCEPT !.stdout = Append(@, c)]
       \/ ex' = [ex EXCEPT !.stderr = Append(@, "e")]
    /\ UNCHANGED <<run, fr, rd, rg, fsys, ht, sb, lg, cf>>

\* the subprocess exits
ProcExit ==
    /\ ex.proc = "running"
    /\ \E c \in {0, 1} : ex' = [ex EXCEPT !.proc = "exited", !.code = c]
    /\ UNCHANGED <<run, fr, rd, rg, fsys, ht, sb, lg, cf>>

\* the goroutine sees the subprocess gone and sends on done
GoSend ==
    /\ ex.g = "wait"
    /\ ex.proc \in {"exited", "killed"}
    /\ ex' = cmdWait(ex)
    /\ UNCHANGED <<run, fr, rd, rg, fsys, ht, sb, lg, cf>>

\* the timer of time.After expires
TimerFires ==
    /\ ex.g # "new"
    /\ ex.ret = <<>>
    /\ ~ex.timer
    /\ ex' = [ex EXCEPT !.timer = TRUE]
    /\ UNCHANGED <<run, fr, rd, rg, fsys, ht, sb, lg, cf>>

\* the select takes the done case
SelectDone ==
    /\ ex.ret = <<>>
    /\ ex.done # "empty"
    /\ ex' = recvDone(ex)
    /\ UNCHANGED <<run, fr, rd, rg, fsys, ht, sb, lg, cf>>

\* the select takes the timeout case
SelectTimeout ==
    /\ ex.ret = <<>>
    /\ ex.timer
    /\ \E seen \in ProcessSeen(ex) : ex' = recvTimeout(ex, seen)
    /\ UNCHANGED <<run, fr, rd, rg, fsys, ht, sb, lg, cf>>

\* ------------------------------------------------- registry calls: steps
InitRegistry ==
    /\ NoRun
    /\ rg \in {RgInit(<<>>), RgInit([k \in {FSToolName} |-> BuiltinFS])}
    /\ fr = FrIdle /\ rd = RdInit /\ ex = ExIdle
    /\ fsys = FsIdle /\ ht = HtIdle /\ sb = SbIdle /\ lg = LgIdle
    /\ cf = CfIdle

CallRegister ==
    /\ \E t \in ToolDecls :
          rg' = [tools |-> Register(rg.tools, t),
                 last |-> [NoCall EXCEPT
                             !.op = "Register", !.name = t.Name, !.decl = t,
                             !.res = Result(RegisterError(t) = "", "", RegisterError(t)),
                             !.before = rg.tools]]
    /\ UNCHANGED <<run, fr, rd, ex, fsys, ht, sb, lg, cf>>

CallExecute ==
    /\ \E name \in CallNames, arg \in Inputs :
        \E res \in Execute(rg.tools, name, arg) :
          rg' = [rg EXCEPT !.last =
                    [NoCall EXCEPT
                       !.op = "Execute", !.name = name, !.input = arg, !.res = res,
                       !.ran = Get(rg.tools, name), !.before = rg.tools]]
    /\ UNCHANGED <<run, fr, rd, ex, fsys, ht, sb, lg, cf>>

CallExecuteTool ==
    /\ \E name \in CallNames, arg \in Inputs :
        \E res \in ExecuteTool(rg.tools, name, arg) :
          rg' = [rg EXCEPT !.last =
                    [NoCall EXCEPT
                       !.op = "ExecuteTool", !.name = name, !.input = arg,
                       !.res = res, !.ran = Get(rg.tools, name),
                       !.before = rg.tools]]
    /\ UNCHANGED <<run, fr, rd, ex, fsys, ht, sb, lg, cf>>

\* a registry is loaded from a file and takes the place of the one in use;
\* a failed load returns no registry and the one in use stays
Loaded(op, f, l) ==
    [tools |-> IF l.err = "" THEN l.reg ELSE rg.tools,
     last |-> [NoCall EXCEPT !.op = op, !.file = f,
                             !.res = Result(l.err = "", "", l.err)]]

CallLoadFromFile ==
    /\ \E f \in PluginFiles : rg' = Loaded("LoadFromFile", f, LoadFromFile(f))
    /\ UNCHANGED <<run, fr, rd, ex, fsys, ht, sb, lg, cf>>

CallLoadWithBuiltins ==
    /\ \E f \in PluginFiles :
          rg' = Loaded("LoadWithBuiltins", f, LoadDefaultWithBuiltins(f))
    /\ UNCHANGED <<run, fr, rd, ex, fsys, ht, sb, lg, cf>>

NextRegistry ==
    CallRegister \/ CallExecute \/ CallExecuteTool \/ CallLoadFromFile
        \/ CallLoadWithBuiltins

SpecRegistry == InitRegistry /\ [][NextRegistry]_vars

\* -------------------------------------------- the built-in fs tool: steps
InitFS ==
    /\ NoRun
    /\ fsys = FsInit
    /\ fr = FrIdle /\ rd = RdInit /\ ex = ExIdle /\ rg = RgIdle /\ ht = HtIdle
    /\ sb = SbIdle /\ lg = LgIdle
    /\ cf = CfIdle

\* tool.FS is called with a request
CallFS ==
    /\ \E req \in FsRequests :
          /\ req.Op = "append" /\ IsFile(fsys.nodes, req.Path) =>
                Len(fsys.nodes[req.Path].data) + Len(req.Data) <= MaxData
          /\ \E o \in FS(fsys.nodes, req) :
                fsys' = [nodes |-> o.nodes, req |-> req, res |-> o.res, sys |-> o.sys]
    /\ UNCHANGED <<run, fr, rd, ex, rg, ht, sb, lg, cf>>

NextFS == CallFS

SpecFS == InitFS /\ [][NextFS]_vars

\* ------------------------------------------------- substituteTemplate
\* the pieces templates are made of
Pieces == {Placeholder(KeyA), Placeholder(KeyB), Placeholder(KeyC),
           <<"{", "{", ".">>, <<"}", "}">>, <<"a">>, <<"x", " ">>}
Templates == {Concat(ps) : ps \in Strings(Pieces, MaxPieces)}

ParamValues == {StringValue(<<"v">>), StringValue(<<>>), StringValue(Placeholder(KeyB)),
                NumberValue(42)}
Params == UNION {[ks -> ParamValues] : ks \in SUBSET {KeyA, KeyB}}

InitTemplate ==
    /\ NoRun
    /\ sb \in {[pc |-> "call", template |-> t, params |-> ps, result |-> <<>>] :
                t \in Templates, ps \in Params}
    /\ fr = FrIdle /\ rd = RdInit /\ ex = ExIdle /\ rg = RgIdle
    /\ fsys = FsIdle /\ ht = HtIdle /\ lg = LgIdle
    /\ cf = CfIdle

CallSubstituteTemplate ==
    /\ sb.pc = "call"
    /\ \E r \in substituteTemplate(sb.template, sb.params) :
          sb' = [sb EXCEPT !.pc = "done", !.result = r]
    /\ UNCHANGED <<run, fr, rd, ex, rg, fsys, ht, lg, cf>>

NextTemplate == CallSubstituteTemplate

SpecTemplate == InitTemplate /\ [][NextTemplate]_vars

\* ------------------------------------------------------------ executeHTTP
MinOf(S) == CHOOSE x \in S : \A y \in S : x <= y

\* os: isShellSpecialVar, isAlphaNum
IsShellSpecialVar(c) == c \in {"*", "#", "$", "@", "!", "?", "-"} \cup DigitChars
IsAlphaNum(c) == c \in {"_"} \cup DigitChars \cup Letters

\* os.getShellName: the name that follows a dollar sign and the number of
\* characters it takes
getShellName(s) ==
    IF s[1] = "{"
    THEN IF Len(s) > 2 /\ IsShellSpecialVar(s[2]) /\ s[3] = "}"
         THEN [name |-> <<s[2]>>, w |-> 3]
         ELSE LET closes == {i \in 2..Len(s) : s[i] = "}"} IN
              IF closes = {} THEN [name |-> <<>>, w |-> 1]
              ELSE IF MinOf(closes) = 2 THEN [name |-> <<>>, w |-> 2]
              ELSE [name |-> SubSeq(s, 2, MinOf(closes) - 1), w |-> MinOf(closes)]
    ELSE IF IsShellSpecialVar(s[1]) THEN [name |-> <<s[1]>>, w |-> 1]
    ELSE LET stops == {i \in 1..Len(s) : ~IsAlphaNum(s[i])}
             k == IF stops = {} THEN Len(s) ELSE MinOf(stops) - 1
         IN  [name |-> SubSeq(s, 1, k), w |-> k]

\* os.Getenv: an unset variable reads as the empty string
Getenv(environ, name) == IF name \in DOMAIN environ THEN environ[name] ELSE <<>>

\* os.Expand with os.Getenv as the mapping
RECURSIVE Expand(_, _)
Expand(s, environ) ==
    IF s = <<>> THEN <<>>
    ELSE IF s[1] = "$" /\ Len(s) > 1
    THEN LET g == getShellName(Tail(s))
             put == IF g.name = <<>> /\ g.w > 0 THEN <<>>
                    ELSE IF g.name = <<>> THEN <<"$">>
                    ELSE Getenv(environ, g.name)
         IN  put \o Expand(SubSeq(s, g.w + 2, Len(s)), environ)
    ELSE <<s[1]>> \o Expand(Tail(s), environ)

substituteEnvVars(s, environ) == Expand(s, environ)

\* json.Marshal of a value and of the argument map (keys in sorted order)
JSONText(value) ==
    IF value.kind = "string" THEN <<"\"">> \o value.v \o <<"\"">> ELSE Digits(value.v)

RECURSIVE JSONMembers(_, _)
JSONMembers(params, keys) ==
    IF keys = <<>> THEN <<>>
    ELSE IF Head(keys) \notin DOMAIN params THEN JSONMembers(params, Tail(keys))
    ELSE <<<<"\"">> \o Head(keys) \o <<"\"", ":">> \o JSONText(params[Head(keys)])>>
         \o JSONMembers(params, Tail(keys))

MarshalParams(params) ==
    <<"{">> \o Join(JSONMembers(params, <<KeyA, KeyB>>), <<",">>) \o <<"}">>

\* url.Parse refuses a percent sign that two hexadecimal digits do not follow
HexChars == DigitChars \cup {"a", "b", "c", "d", "e", "f", "A", "B", "C", "D", "E", "F"}
ValidURL(u) ==
    \A i \in 1..Len(u) :
        u[i] = "%" => i + 2 <= Len(u) /\ u[i + 1] \in HexChars /\ u[i + 2] \in HexChars

\* tool definitions of type http
Host == <<"h", "/">>
Bearer == <<"B", " ">>
TokenVar == <<"T">>
URLs == {Host, Host \o Placeholder(KeyA), Host \o <<"$">> \o TokenVar}
Methods == {"", "GET", "POST"}
AuthValues == {Bearer \o <<"$">> \o TokenVar, Bearer \o <<"$", "{">> \o TokenVar \o <<"}">>,
               Placeholder(KeyA)}
TypeValues == {<<"t">>, <<"$">> \o TokenVar}
HeaderSets ==
    UNION {{[k \in ks |-> IF k = "Authorization" THEN a ELSE c] :
                a \in AuthValues, c \in TypeValues} :
            ks \in SUBSET {"Authorization", "Content-Type"}}
BodyTemplates == {<<>>, Placeholder(KeyA), <<"q", "=">> \o Placeholder(KeyB)}
HTTPTools ==
    {[Type |-> "http", URL |-> u, Method |-> m, Headers |-> h, Body |-> b] :
        u \in URLs, m \in Methods, h \in HeaderSets, b \in BodyTemplates}

\* decoded arguments of a call, and the environment of the process
HTTPParams ==
    {<<>>, KeyA :> StringValue(<<"v">>), KeyA :> NumberValue(42),
     KeyA :> StringValue(<<"%">>), KeyA :> StringValue(<<"$">> \o TokenVar),
     KeyA :> StringValue(<<"v">>) @@ KeyB :> StringValue(<<"w">>)}
Environs == {<<>>, TokenVar :> <<"k">>}

\* what the endpoint may do: refuse the connection, break off while the body
\* is read, or answer with a status and a body
HTTPStatuses == {200, 399, 400, 404}
HTTPBodies == {<<>>, <<"{", "}">>, <<"7">>, <<"o", "o", "p", "s">>}
HTTPResponses ==
    {[kind |-> k, status |-> 0, body |-> <<>>] : k \in {"refused", "unreadable"}}
    \cup {[kind |-> "response", status |-> st, body |-> b] :
            st \in HTTPStatuses, b \in HTTPBodies}

NoRequest == [method |-> "", url |-> <<>>, headers |-> <<>>, body |-> <<>>]
NoHTTPResponse == [kind |-> "none", status |-> 0, body |-> <<>>]

\* the request body: the substituted body template, or the arguments as JSON
\* when there is no template
RequestBodies(t, params) ==
    IF t.Body # <<>> THEN substituteTemplate(t.Body, params)
    ELSE IF DOMAIN params # {} THEN {MarshalParams(params)}
    ELSE {<<>>}

MethodOf_asDeclared(t) == t.Method

MethodOf(t) == IF t.Method = "" THEN "POST" ELSE t.Method

\* the headers of the request: those of the tool with the environment
\* expanded, and the default content type
HeaderValue_substituted(value, params, environ) ==
    substituteEnvVars(CHOOSE r \in substituteTemplate(value, params) : TRUE, environ)

\* the value a declared header is sent with
HeaderValue(value, params, environ) == substituteEnvVars(value, environ)

RequestHeaders(t, params, environ) ==
    LET set == [k \in DOMAIN t.Headers |-> HeaderValue(t.Headers[k], params, environ)]
        typed == "Content-Type" \in DOMAIN set /\ set["Content-Type"] # <<>>
    IN  IF MethodOf(t) \in {"POST", "PUT"} /\ ~typed
        THEN [k \in DOMAIN set \cup {"Content-Type"} |->
                IF k = "Content-Type" THEN <<"application/json">> ELSE set[k]]
        ELSE set

\* a status that makes the call fail
StatusFailed_above400(status) == status > 400

StatusFailed(status) == status >= 400

StatusErrorText(status, body) ==
    <<"H", "T", "T", "P", " ">> \o Digits(status) \o <<":", " ">> \o body

\* the result executeHTTP returns for what the endpoint did
HTTPResult(resp) ==
    IF resp.kind = "refused" THEN Result(FALSE, Nil, <<"request failed: ", "refused">>)
    ELSE IF resp.kind = "unreadable"
    THEN Result(FALSE, Nil, <<"failed to read response: ", "unexpected EOF">>)
    ELSE IF StatusFailed(resp.status)
    THEN Result(FALSE, Nil, StatusErrorText(resp.status, resp.body))
    ELSE Result(TRUE,
                IF Unmarshal(resp.body).ok THEN Unmarshal(resp.body).value
                ELSE StringValue(resp.body),
                <<>>)

InitHTTP ==
    /\ NoRun
    /\ ht \in {[pc |-> "call", tool |-> t, params |-> ps, environ |-> e,
                 req |-> NoRequest, resp |-> NoHTTPResponse,
                 res |-> Result(TRUE, Nil, <<>>)] :
                t \in HTTPTools, ps \in HTTPParams, e \in Environs}
    /\ fr = FrIdle /\ rd = RdInit /\ ex = ExIdle /\ rg = RgIdle
    /\ fsys = FsIdle /\ sb = SbIdle /\ lg = LgIdle
    /\ cf = CfIdle

\* executeHTTP up to client.Do: the request is built, or refused by
\* http.NewRequest
NewRequest ==
    /\ ht.pc = "call"
    /\ \E u \in substituteTemplate(ht.tool.URL, ht.params),
          b \in RequestBodies(ht.tool, ht.params) :
          IF ~ValidURL(u)
          THEN ht' = [ht EXCEPT !.pc = "done",
                        !.res = Result(FALSE, Nil,
                                       <<"failed to create request: ", "invalid URL escape">>)]
          ELSE ht' = [ht EXCEPT !.pc = "sent",
                        !.req = [method |-> MethodOf(ht.tool), url |-> u, body |-> b,
                                 headers |-> RequestHeaders(ht.tool, ht.params, ht.environ)]]
    /\ UNCHANGED <<run, fr, rd, ex, rg, fsys, sb, lg, cf>>

\* client.Do returns and executeHTTP builds its result
ClientDo ==
    /\ ht.pc = "sent"
    /\ \E resp \in HTTPResponses :
          ht' = [ht EXCEPT !.pc = "done", !.resp = resp, !.res = HTTPResult(resp)]
    /\ UNCHANGED <<run, fr, rd, ex, rg, fsys, sb, lg, cf>>

NextHTTP == NewRequest \/ ClientDo

SpecHTTP == InitHTTP /\ [][NextHTTP]_vars

\* --------------------------------------- the tool loop and its diagnostics
\* A Go string is a sequence of bytes. An input is given by its characters;
\* "W" stands for a character that UTF-8 writes in two bytes.
WideChars == {"W"}

UTF8(chars) ==
    Concat([i \in 1..Len(chars) |->
              IF chars[i] \in WideChars THEN <<chars[i] \o "1", chars[i] \o "2">>
              ELSE <<chars[i]>>])

Repeat(c, k) == [i \in 1..k |-> c]

\* inputs around the limit of a diagnostic line
LogInputs ==
    {<<"{", "}">>}
    \cup {Repeat("x", k) : k \in (LogLimit - 1)..(LogLimit + MaxOver)}
    \cup {Repeat("W", k) : k \in {LogLimit \div 2, LogLimit \div 2 + 1}}
LogCalls == {[Name |-> name, Arguments |-> a] : name \in {"fs", "ghost"}, a \in LogInputs}

InitLog ==
    /\ NoRun
    /\ lg \in {[pc |-> "loop", w |-> w, provider |-> p, calls |-> cs, idx |-> 1,
                 lines |-> <<>>, executed |-> <<>>] :
                w \in BOOLEAN, p \in Providers, cs \in Strings(LogCalls, MaxLogCalls)}
    /\ fr = FrIdle /\ rd = RdInit /\ ex = ExIdle /\ rg = RgIdle
    /\ fsys = FsIdle /\ ht = HtIdle /\ sb = SbIdle
    /\ cf = CfIdle

\* one pass of the loop over the tool calls of a round: a call whose tool is
\* not registered is skipped, any other is executed and logged
LogStep ==
    /\ lg.pc = "loop"
    /\ lg.idx <= Len(lg.calls)
    /\ LET call == lg.calls[lg.idx] IN
       IF ~Get(tools, call.Name)
       THEN lg' = [lg EXCEPT !.idx = @ + 1]
       ELSE \E res \in ExecuteTool(tools, call.Name, UTF8(call.Arguments)) :
              lg' = [lg EXCEPT !.idx = @ + 1,
                               !.executed = Append(@, [call |-> call, res |-> res]),
                               !.lines = @ \o logToolResult(lg.w, lg.provider, call.Name,
                                                            UTF8(call.Arguments), res)]
    /\ UNCHANGED <<run, fr, rd, ex, rg, fsys, ht, sb, cf>>

\* the loop is over
LogEnd ==
    /\ lg.pc = "loop"
    /\ lg.idx > Len(lg.calls)
    /\ lg' = [lg EXCEPT !.pc = "done"]
    /\ UNCHANGED <<run, fr, rd, ex, rg, fsys, ht, sb, cf>>

NextLog == LogStep \/ LogEnd

SpecLog == InitLog /\ [][NextLog]_vars

\* ------------------------------------------------------------ config.Load
\* A setting of a source: given with a value, or not given, in which case the
\* field holds the zero value of its type.
Given(v) == [given |-> TRUE, v |-> v]
NotGiven(zero) == [given |-> FALSE, v |-> zero]

\* command lines: each flag is given with a value or left out; main declares
\* the flags with the defaults "" and 0. Temperatures are written in whole
\* numbers, durations in milliseconds.
CmdLines ==
    [Provider : {NotGiven(""), Given("gemini")},
     Model : {NotGiven(""), Given("flag-model")},
     MaxTokens : {NotGiven(0), Given(0), Given(30)},
     Temperature : {NotGiven(0), Given(0), Given(3)},
     Timeout : {NotGiven(0), Given(3000)}]

\* flag.Parse: the Flags value main hands to Load
FlagsOf(cmd) ==
    [Provider |-> cmd.Provider.v, Model |-> cmd.Model.v, MaxTokens |-> cmd.MaxTokens.v,
     Temperature |-> cmd.Temperature.v, Timeout |-> cmd.Timeout.v]

\* environments: a variable that is not set reads as the empty string
ConfigEnvs ==
    [GOGO_PROVIDER : {"", "anthropic"},
     GOGO_MODEL : {"", "env-model"},
     GOGO_MAX_TOKENS : {<<>>, <<"2", "0">>, <<"a">>},
     GOGO_TEMPERATURE : {<<>>, <<"2">>},
     GOGO_TIMEOUT_MS : {<<>>, <<"2", "0", "0", "0">>}]

\* config files: missing, not valid JSON, or an object with some of the keys
ConfigObjects ==
    [provider : {NotGiven(""), Given("openai")},
     model : {NotGiven(""), Given("file-model")},
     max_tokens : {NotGiven(0), Given(10)},
     temperature : {NotGiven(0), Given(1)},
     timeout_ms : {NotGiven(0), Given(1000)}]
NoObject ==
    [provider |-> NotGiven(""), model |-> NotGiven(""), max_tokens |-> NotGiven(0),
     temperature |-> NotGiven(0), timeout_ms |-> NotGiven(0)]
ConfigFiles ==
    {[kind |-> k, object |-> NoObject] : k \in {"missing", "malformed"}}
    \cup {[kind |-> "object", object |-> o] : o \in ConfigObjects}

\* readFileConfig: the zero fileConfig unless the file holds an object
readFileConfig(file) ==
    [Provider |-> file.object.provider.v, Model |-> file.object.model.v,
     MaxTokens |-> file.object.max_tokens.v, Temperature |-> file.object.temperature.v,
     TimeoutMS |-> file.object.timeout_ms.v]

\* strconv.Atoi and strconv.ParseFloat on the strings of the model
Atoi(str) ==
    IF str # <<>> /\ \A i \in 1..Len(str) : str[i] \in DigitChars
    THEN [ok |-> TRUE, v |-> NumberOf(str)]
    ELSE [ok |-> FALSE, v |-> 0]
ParseFloat(str) == Atoi(str)

NoConfig == [Provider |-> "", Model |-> "", MaxTokens |-> 0, Temperature |-> 0, Timeout |-> 0]

applyFile(cfg, f) ==
    [Provider |-> IF f.Provider # "" THEN f.Provider ELSE cfg.Provider,
     Model |-> IF f.Model # "" THEN f.Model ELSE cfg.Model,
     MaxTokens |-> IF f.MaxTokens > 0 THEN f.MaxTokens ELSE cfg.MaxTokens,
     Temperature |-> IF f.Temperature # 0 THEN f.Temperature ELSE cfg.Temperature,
     Timeout |-> IF f.TimeoutMS > 0 THEN f.TimeoutMS ELSE cfg.Timeout]

applyEnv(cfg, e) ==
    [Provider |-> IF e.GOGO_PROVIDER # "" THEN e.GOGO_PROVIDER ELSE cfg.Provider,
     Model |-> IF e.GOGO_MODEL # "" THEN e.GOGO_MODEL ELSE cfg.Model,
     MaxTokens |-> IF e.GOGO_MAX_TOKENS # <<>> /\ Atoi(e.GOGO_MAX_TOKENS).ok
                   THEN Atoi(e.GOGO_MAX_TOKENS).v ELSE cfg.MaxTokens,
     Temperature |-> IF e.GOGO_TEMPERATURE # <<>> /\ ParseFloat(e.GOGO_TEMPERATURE).ok
                     THEN ParseFloat(e.GOGO_TEMPERATURE).v ELSE cfg.Temperature,
     Timeout |-> IF e.GOGO_TIMEOUT_MS # <<>> /\ Atoi(e.GOGO_TIMEOUT_MS).ok
                 THEN Atoi(e.GOGO_TIMEOUT_MS).v ELSE cfg.Timeout]

\* a numeric flag that counts as set
FlagSet(v) == v > 0

applyFlags(cfg, f) ==
    [Provider |-> IF f.Provider # "" THEN f.Provider ELSE cfg.Provider,
     Model |-> IF f.Model # "" THEN f.Model ELSE cfg.Model,
     MaxTokens |-> IF FlagSet(f.MaxTokens) THEN f.MaxTokens ELSE cfg.MaxTokens,
     Temperature |-> IF f.Temperature # 0 THEN f.Temperature ELSE cfg.Temperature,
     Timeout |-> IF FlagSet(f.Timeout) THEN f.Timeout ELSE cfg.Timeout]

DefaultModel(prov) ==
    CASE prov = "openai" -> "gpt-4o-mini"
      [] prov = "anthropic" -> "claude-3-5-haiku-latest"
      [] prov = "gemini" -> "gemini-1.5-flash"
      [] OTHER -> ""

applyDefaults(cfg) ==
    IF cfg.Model = "" THEN [cfg EXCEPT !.Model = DefaultModel(cfg.Provider)] ELSE cfg

\* config.Load: the configuration and the error it returns
Load(cmd, e, file) ==
    LET cfg == applyDefaults(applyFlags(applyEnv(applyFile(NoConfig, readFileConfig(file)),
                                                 e),
                                        FlagsOf(cmd)))
    IN  [cfg |-> cfg,
         err |-> IF cfg.Provider = "" THEN "provider is required"
                 ELSE IF cfg.Model = "" THEN "model is required"
                 ELSE ""]

InitConfig ==
    /\ NoRun
    /\ cf \in {[pc |-> "call", cmd |-> c, environ |-> e, file |-> f,
                 cfg |-> NoConfig, err |-> ""] :
                c \in CmdLines, e \in ConfigEnvs, f \in ConfigFiles}
    /\ fr = FrIdle /\ rd = RdInit /\ ex = ExIdle /\ rg = RgIdle
    /\ fsys = FsIdle /\ ht = HtIdle /\ sb = SbIdle /\ lg = LgIdle

CallLoad ==
    /\ cf.pc = "call"
    /\ cf' = [cf EXCEPT !.pc = "done",
                        !.cfg = Load(cf.cmd, cf.environ, cf.file).cfg,
                        !.err = Load(cf.cmd, cf.environ, cf.file).err]
    /\ UNCHANGED <<run, fr, rd, ex, rg, fsys, ht, sb, lg>>

NextConfig == CallLoad

SpecConfig == InitConfig /\ [][NextConfig]_vars

NextExec ==
    Command \/ GoStart \/ ProcWrite \/ ProcExit \/ GoSend \/ TimerFires \/ SelectDone
        \/ SelectTimeout

SpecExec == InitExec /\ [][NextExec]_vars

\* --------------------------------------------- one tool execution of any kind
\* ExecuteTool with what it dispatches to: a call on the registry, on the
\* built-in fs tool, of executeHTTP or of executeExec. One executor is in
\* use in a run; the others stay as they were constructed.
InitTools == InitRegistry \/ InitFS \/ InitHTTP \/ InitExec

\* no call was made on the fs tool, on the registry, by executeExec
NoFSCall == fsys.req.Op = ""
NoRegistryCall == rg.last.op = ""
NoExecCall == ex.tool = ExIdle.tool

ToolsRegistry == NoFSCall /\ NoExecCall /\ ht.pc = "idle" /\ NextRegistry

ToolsFS == NoRegistryCall /\ NoExecCall /\ ht.pc = "idle" /\ NextFS

ToolsExec == ~NoExecCall /\ NextExec

NextTools == ToolsRegistry \/ ToolsFS \/ NextHTTP \/ ToolsExec

SpecTools == InitTools /\ [][NextTools]_vars

\* ============================================================= properties
Registered(name) == name \in DOMAIN tools

\* some round-1 call names a registered tool
RegisteredCall == \E i \in 1..Len(calls) : Registered(calls[i].Name)

\* the result entries a continuation request carries
ResultsOf(req) ==
    IF req.provider = "openai" THEN req.input ELSE Last(req.input).results

\* the round-2 stream asked for tools
Round2AskedTools == round = 2 /\ (DOMAIN once.toolCalls # {} \/ once.gcalls # <<>>)

\* C1: bounded rounds. Whatever round 1 and round 2 request, at most two
\* requests are ever handed to the transport and the run never enters a
\* third round.
C1_BoundedRounds == Len(requests) <= 2 /\ round <= 2

\* the run has ended after a round 2 whose stream requested tools
C1_Witness ==
    pc = "done" /\ err = "nil" /\ Round2AskedTools /\ Len(requests) = 2

\* C2: a second request is sent exactly when round 1 ended without error and
\* one of its calls names a registered tool; a round 1 that ended with no
\* call or only unregistered calls ends the run with success after one request.
C2_SecondRequestIff ==
    /\ Len(requests) >= 2 => (1 \in ended /\ RegisteredCall)
    /\ (pc = "done" /\ 1 \in ended /\ RegisteredCall) => Len(requests) = 2
    /\ (pc = "done" /\ 1 \in ended /\ ~RegisteredCall) =>
            (err = "nil" /\ Len(requests) = 1)

\* the run ended after a round 1 that requested only unregistered tools
C2_Witness ==
    /\ pc = "done" /\ 1 \in ended /\ calls # <<>> /\ ~RegisteredCall
    /\ Len(requests) = 1 /\ err = "nil"

\* C3: unknown-tool skip. A call to an unregistered name is never executed,
\* leaves no diagnostic line and no error and has no entry in the
\* continuation request; the registered calls of the same round are all
\* executed and their entries make up the continuation request.
C3_UnknownToolSkip ==
    /\ \A i \in 1..Len(executed) : Registered(executed[i].name)
    /\ \A i \in 1..Len(diag) : Registered(diag[i].tool)
    /\ \A i \in 1..Len(skipped) : ~Registered(calls[skipped[i].pos].Name)
    /\ Len(toolMessages) = Len(executed)
    /\ \A i \in 1..Len(executed) :
          toolMessages[i].addr = AddrOf(provider, calls[executed[i].pos])
    /\ (pc = "exec" /\ skipped # <<>>) => err = ""
    /\ (pc # "exec" /\ calls # <<>>) =>
          /\ {executed[i].pos : i \in 1..Len(executed)}
                = {i \in 1..Len(calls) : Registered(calls[i].Name)}
          /\ {skipped[i].pos : i \in 1..Len(skipped)}
                = {i \in 1..Len(calls) : ~Registered(calls[i].Name)}
    /\ Len(requests) = 2 => ResultsOf(requests[2]) = toolMessages

\* a round with one skipped and one executed call went on to round 2
C3_Witness ==
    /\ pc = "done" /\ err = "nil" /\ skipped # <<>> /\ executed # <<>>
    /\ Len(requests) = 2 /\ Len(ResultsOf(requests[2])) = Len(executed)

\* the errors that abort a request: transport failure, non-success status,
\* malformed payload, failed read of the body
FatalErrors == {"transport", "decode", "read"} \cup Bodies

C5_OutputAppendOnly ==
    [][/\ IsPrefix(out, out')
       /\ (round = 2 /\ pc # "done" /\ pc' = "done" /\ err' # "nil") =>
             (err' \in FatalErrors /\ out' = out /\ IsPrefix(texts[1], out'))]_vars

\* round 2 failed after round 1 had written text
C5_Witness ==
    /\ pc = "done" /\ round = 2 /\ err \in FatalErrors
    /\ texts[1] # <<>> /\ IsPrefix(texts[1], out)

\* a complete call to a registered tool is in the accumulator
CompleteCallAccumulated ==
    \/ \E id \in DOMAIN once.toolCalls :
          /\ Registered(once.toolCalls[id].Name)
          /\ JSONParses(once.toolCalls[id].Arguments)
    \/ \E i \in 1..Len(once.gcalls) : Registered(once.gcalls[i].Name)

\* C6: a payload that fails to decode ends the run at once with the decode
\* error: the failing step writes nothing, no step follows it, and in
\* round 1 no tool has been or will be executed and no second request sent.
C6_DecodeErrorAborts ==
    [][/\ err # "decode"
       /\ err' = "decode" =>
            /\ pc' = "done" /\ out' = out /\ requests' = requests
            /\ executed' = executed /\ diag' = diag
            /\ round' = 1 => (executed' = <<>> /\ Len(requests') = 1)]_vars

\* round 1 hit a malformed payload after a complete call had been accumulated
C6_Witness ==
    err = "decode" /\ pc = "done" /\ round = 1 /\ CompleteCallAccumulated

\* C7: a failed tool execution is not fatal. Its result is placed in the
\* continuation request like any other, the second round is run, and no
\* tool outcome ever becomes the value Stream returns.
C7_ToolFailureNotFatal ==
    /\ Len(toolMessages) = Len(executed)
    /\ \A i \in 1..Len(executed) : toolMessages[i].output = ToJSON(executed[i].res)
    /\ \A i \in 1..Len(executed) :
          \/ executed[i].res.OK /\ executed[i].res.Error = ""
          \/ ~executed[i].res.OK /\ executed[i].res.Error # ""
    /\ pc = "exec" => err = ""
    /\ (pc # "exec" /\ executed # <<>>) =>
          /\ round = 2
          /\ Len(requests) = 2 => ResultsOf(requests[2]) = toolMessages
          /\ pc = "done" => Len(requests) = 2
    /\ err \in {"", "nil", "missing key", "unknown provider"} \cup FatalErrors

\* a run whose only tool execution failed went through round 2 to success
C7_Witness ==
    /\ pc = "done" /\ err = "nil" /\ Len(requests) = 2
    /\ executed # <<>>
    /\ \A i \in 1..Len(executed) : ~executed[i].res.OK
    /\ \E i \in 1..Len(executed) : executed[i].res.Error = "command timed out"

\* C8: a finalized call whose accumulated arguments do not parse as JSON is
\* dropped: it is not executed and has no entry in the continuation request,
\* and when no call of the round has parseable arguments the run ends with
\* success after one request.
C8_MalformedArgsDropped ==
    /\ \A i \in 1..Len(executed) : JSONParses(executed[i].input)
    /\ Len(toolMessages) = Len(executed)
    /\ (pc = "done" /\ 1 \in ended
          /\ \A i \in 1..Len(calls) : ~JSONParses(calls[i].Arguments)) =>
            (err = "nil" /\ Len(requests) = 1)

\* position of a call in the order in which the round-1 stream first started
\* the calls (Gemini calls carry no id: their position in the stream)
StartPos(e) ==
    IF provider = "gemini" THEN e.pos
    ELSE CHOOSE i \in 1..Len(started) : started[i] = e.key

\* C9: the round-1 calls are executed, logged and answered in the order in
\* which the stream first started them.
C9_ExecutedInStartOrder ==
    /\ \A i, j \in 1..Len(executed) :
          i < j => StartPos(executed[i]) < StartPos(executed[j])
    /\ Len(toolMessages) = Len(executed) /\ Len(diag) = Len(executed)
    /\ \A i \in 1..Len(executed) :
          /\ diag[i].tool = executed[i].name
          /\ toolMessages[i].addr = AddrOf(provider, calls[executed[i].pos])

\* C10: in a stream whose fragments all follow the start of their call, the
\* arguments accumulated for a call are exactly the fragments the stream
\* addressed to that call, in stream order, however the calls interleave.
C10_FragmentsDemultiplexed ==
    orphans = {} =>
        \A id \in DOMAIN once.toolCalls :
            id \in DOMAIN sent /\ once.toolCalls[id].Arguments = sent[id]

\* the arguments accumulated for the call that receives the fragments
FrArguments == fr.st.toolCalls["A"].Arguments

\* C11: for a started call, whatever the string and however it is cut into
\* fragments, the arguments accumulated after the fragments received so far
\* are that part of the string, unchanged, and after the last fragment the
\* whole string.
C11_FragmentsConcatenate ==
    /\ FrArguments \o fr.rest = fr.S
    /\ fr.rest = <<>> => FrArguments = fr.S

\* a string that starts and ends with a space and repeats a character has
\* arrived in three fragments
C11_Witness ==
    /\ fr.rest = <<>> /\ fr.cuts = 3 /\ Len(fr.S) = 3
    /\ fr.S[1] = " " /\ fr.S[3] = " " /\ fr.provider = "anthropic"
    /\ FrArguments = fr.S

NewLine == <<"\n">>

\* C12: the payload delivered for a block is the contents of the block's
\* prefixed lines joined by a newline, in order.
C12_PayloadIsJoinedContents ==
    \A i \in 1..Len(rd.delivered) :
        rd.delivered[i].payload = Join(rd.delivered[i].block, NewLine)

\* C13: the payloads delivered are, one for one and in order, the blocks
\* read so far that held at least one prefixed line; blank lines in a row
\* and blocks without a prefixed line deliver nothing.
C13_OnePayloadPerBlock ==
    /\ Len(rd.delivered) = Len(rd.blocks)
    /\ \A i \in 1..Len(rd.delivered) : rd.delivered[i].block = rd.blocks[i]

\* C14: at a clean end of the stream an unfinished block that holds a
\* prefixed line is delivered, once; an end that follows a blank line
\* delivers nothing; and no block is ever delivered twice.
C14_EndOfStreamFlush ==
    [][/\ (rd.ret = "" /\ rd'.ret = "nil") =>
            IF rd.block # <<>>
            THEN /\ Len(rd'.delivered) = Len(rd.delivered) + 1
                 /\ Last(rd'.delivered).bno = rd.bno
            ELSE rd'.delivered = rd.delivered
       /\ \A i, j \in 1..Len(rd'.delivered) :
            i < j => rd'.delivered[i].bno < rd'.delivered[j].bno]_vars

\* C15: when the scanner fails ReadEvents returns the read error and the
\* failing step delivers nothing: every payload delivered belongs to a
\* block that a blank line had finished, the lines buffered for the
\* unfinished block are dropped, and what was delivered stays delivered.
C15_ReadErrorDiscardsBuffer ==
    [][/\ IsPrefix(rd.delivered, rd'.delivered)
       /\ (rd.ret = "" /\ rd'.ret = "read error") => rd'.delivered = rd.delivered
       /\ rd'.ret = "read error" =>
            \A i \in 1..Len(rd'.delivered) : rd'.delivered[i].bno < rd'.bno
       /\ rd.ret = "read error" => rd' = rd]_vars

\* the scanner failed after a delivered block, with lines of the next block
\* in the buffer
C15_Witness ==
    /\ rd.ret = "read error" /\ rd.buf # <<>> /\ rd.block # <<>>
    /\ Len(rd.delivered) = 1 /\ Len(rd.blocks) = 1

\* the service answered with a status outside 200..299
Refused(resp) == resp # NoResponse /\ resp.StatusCode \notin 200..299

\* C16: a request answered with a non-success status ends the run in that
\* step: Stream returns the response body, unchanged, as its error, no
\* payload is decoded, nothing is written to the output sink and no tool is
\* executed or logged.
C16_StatusAborts ==
    [][(pc = "request" /\ Refused(reply')) =>
            /\ pc' = "done" /\ err' = reply'.Body
            /\ n' = n /\ once' = once /\ out' = out
            /\ executed' = executed /\ diag' = diag]_vars

\* the continuation request was refused with a redirect status, after text
\* and a tool execution in round 1
C16_Witness ==
    /\ pc = "done" /\ round = 2 /\ reply.StatusCode = 300
    /\ err = reply.Body /\ err = "overloaded"
    /\ out # <<>> /\ executed # <<>>

TimedOut == ex.ret # <<>> /\ ex.ret[1].Error = "command timed out"

\* C17: when executeExec has returned for the timeout its result is
\* {ok: false, error: "command timed out"} without any output, and the
\* subprocess is not running, whatever the order of the start of the
\* subprocess, its exit and the expiry of the timer.
C17_TimeoutKills ==
    TimedOut => (ex.ret[1] = Result(FALSE, <<>>, "command timed out")
                    /\ ex.proc # "running")

\* the requests of this step that went out with a live context
NewLiveRequests ==
    {i \in (Len(requests) + 1)..Len(requests') : requests'[i].live}

\* C18: once the context has been cancelled while the stream was read, no
\* step writes a payload to the output sink, executes a tool or sends a
\* request, and the step that ends the run returns the cancellation, not a
\* decode or transport error and not success.
C18_CancelStops ==
    [][(ctx.done /\ ctx.at = "streaming") =>
            /\ out' = out
            /\ executed' = executed
            /\ NewLiveRequests = {}
            /\ (pc # "done" /\ pc' = "done") => err' = "context canceled"]_vars

\* none of the variables that hold the credential of the configured
\* provider is set
CredentialMissing ==
    provider \in Providers
        /\ \A i \in 1..Len(KeyVars(provider)) : KeyVars(provider)[i] \notin env

\* C19: with a provider outside openai, anthropic, gemini, or without the
\* credential of the configured provider, Stream returns an error and the
\* run never sends a request, writes output, decodes a payload or executes
\* a tool.
C19_ConfigErrorsBeforeIO ==
    (provider \notin Providers \/ CredentialMissing) =>
        /\ pc \in {"idle", "done"}
        /\ requests = <<>> /\ out = <<>> /\ n = 0
        /\ executed = <<>> /\ diag = <<>>
        /\ pc = "done" =>
              err = IF provider \in Providers THEN "missing key"
                    ELSE "unknown provider"

\* Stream returned for a missing credential while the credential of
\* another provider was set
C19_Witness ==
    /\ pc = "done" /\ err = "missing key"
    /\ provider = "gemini" /\ env = {"OPENAI_API_KEY"}
    /\ requests = <<>> /\ out = <<>>

\* the last call on the registry was an execution under a name that was
\* not registered
UnknownCall ==
    /\ rg.last.op \in {"Execute", "ExecuteTool"}
    /\ rg.last.name \notin DOMAIN rg.last.before

\* C20 as stated: Registry.Execute and Registry.ExecuteTool answer an
\* unknown name with {ok: false, error: "unknown tool"}, execute nothing
\* and leave the registry as it was.
C20_UnknownToolBare ==
    UnknownCall =>
        /\ rg.last.res = Result(FALSE, "", "unknown tool")
        /\ ~rg.last.ran /\ rg.tools = rg.last.before

\* C20, amended: the error of the result is "unknown tool: " followed by
\* the name that was asked for; nothing is executed and the registry is
\* left as it was.
C20_UnknownToolResult ==
    UnknownCall =>
        /\ rg.last.res = Result(FALSE, "", "unknown tool: " \o rg.last.name)
        /\ ~rg.last.ran /\ rg.tools = rg.last.before

\* Registry.Execute was called for "ghost" on a registry that holds tools
C20_Witness ==
    /\ UnknownCall /\ rg.last.op = "Execute" /\ rg.last.name = "ghost"
    /\ DOMAIN rg.tools = {"fs", "ext", "web"}
    /\ rg.last.res.Error = "unknown tool: ghost"

\* a declaration that meets the conditions put on a registered tool
ValidDecl(t) ==
    /\ t.Name # ""
    /\ t.Type \in {"http", "exec", "builtin"}
    /\ t.Type = "http" => t.URL # ""
    /\ t.Type = "exec" => t.Command # ""

\* C21: every tool in the registry is stored under its non-empty name, has
\* a type among http, exec, builtin, a URL if http and a command if exec;
\* a refused Register returns an error and leaves the registry as it was;
\* an accepted one stores the tool under its name, in place of any earlier
\* tool of that name, and touches no other entry.
C21_RegistryWellFormed ==
    /\ \A k \in DOMAIN rg.tools :
          /\ k # "" /\ rg.tools[k].Name = k
          /\ rg.tools[k].Type \in {"http", "exec", "builtin"}
          /\ rg.tools[k].Type = "http" => rg.tools[k].URL # ""
          /\ rg.tools[k].Type = "exec" => rg.tools[k].Command # ""
    /\ rg.last.op = "Register" =>
          IF ValidDecl(rg.last.decl)
          THEN /\ rg.last.res.OK
               /\ DOMAIN rg.tools = DOMAIN rg.last.before \cup {rg.last.decl.Name}
               /\ rg.tools[rg.last.decl.Name] = rg.last.decl
               /\ \A k \in DOMAIN rg.last.before :
                     k # rg.last.decl.Name => rg.tools[k] = rg.last.before[k]
          ELSE /\ ~rg.last.res.OK /\ rg.last.res.Error # ""
               /\ rg.tools = rg.last.before

\* an http tool without a URL was refused under a name that holds a tool
C21_Witness ==
    /\ rg.last.op = "Register" /\ ~rg.last.res.OK
    /\ rg.last.decl = ToolDecl("ext", "http", "", "")
    /\ "ext" \in DOMAIN rg.tools /\ rg.tools["ext"].Type = "exec"
    /\ FSToolName \in DOMAIN rg.tools

\* the valid entries of a file that carry the given name, by position
ValidAt(f, name) ==
    {i \in 1..Len(f.tools) : ValidDecl(f.tools[i]) /\ f.tools[i].Name = name}

Max(S) == CHOOSE x \in S : \A y \in S : y <= x

\* C22: loading a readable file of declarations succeeds and registers
\* exactly its valid entries, wherever the invalid ones stand: a name is
\* in the registry when a valid entry carries it, with the last such entry.
C22_LoadSkipsInvalid ==
    (rg.last.op = "LoadFromFile" /\ rg.last.file.state = "ok") =>
        /\ rg.last.res.OK
        /\ DOMAIN rg.tools =
              {rg.last.file.tools[i].Name : i \in
                 {j \in 1..Len(rg.last.file.tools) : ValidDecl(rg.last.file.tools[j])}}
        /\ \A k \in DOMAIN rg.tools :
              rg.tools[k] = rg.last.file.tools[Max(ValidAt(rg.last.file, k))]

\* a file whose first entry is invalid and whose second is valid was loaded
C22_Witness ==
    /\ rg.last.op = "LoadFromFile" /\ rg.last.file.state = "ok"
    /\ Len(rg.last.file.tools) = 2
    /\ ~ValidDecl(rg.last.file.tools[1]) /\ ValidDecl(rg.last.file.tools[2])
    /\ DOMAIN rg.tools = {rg.last.file.tools[2].Name}

\* the last request was refused before any call on the storage
FsRefused == ~fsys'.res.OK /\ fsys'.sys = <<>> /\ fsys'.nodes = fsys.nodes

\* the operations that take the path of the request as it is
FsPathOps == FsOps \ {"list"}

\* C23 (as stated): every filesystem operation called with an empty path, move
\* and copy also with an empty destination, and every unknown operation,
\* returns a failure without reading or modifying the storage.
C23_EmptyPathFails ==
    [][/\ fsys'.req.Op \in FsOps /\ fsys'.req.Path = <<>> => FsRefused
       /\ fsys'.req.Op \in {"move", "copy"} /\ fsys'.req.Dest = <<>> => FsRefused
       /\ fsys'.req.Op \notin FsOps => FsRefused]_vars

\* C23 (amended): every filesystem operation other than list called with an
\* empty path, move and copy also with an empty destination, and every
\* unknown operation, returns a failure without reading or modifying the
\* storage; list with an empty path reads the working directory and
\* modifies nothing.
C23_EmptyPathFailsExceptList ==
    [][/\ fsys'.req.Op \in FsPathOps /\ fsys'.req.Path = <<>> =>
            /\ FsRefused
            /\ fsys'.res.Error = IF fsys'.req.Op \in {"move", "copy"}
                                 THEN "path and dest are required"
                                 ELSE "path is required"
       /\ fsys'.req.Op \in {"move", "copy"} /\ fsys'.req.Dest = <<>> =>
            FsRefused /\ fsys'.res.Error = "path and dest are required"
       /\ fsys'.req.Op \notin FsOps =>
            FsRefused /\ fsys'.res.Error = "unknown op"
       /\ fsys'.req.Op = "list" /\ fsys'.req.Path = <<>> =>
            /\ fsys'.sys = <<"ReadDir">>
            /\ fsys'.nodes = fsys.nodes
            /\ fsys'.res.OK =>
                  fsys'.res.Data =
                    {[Name |-> Last(q), IsDir |-> fsys.nodes[q].dir] :
                        q \in Children(fsys.nodes, <<>>)}]_vars

\* a removal with an empty path was refused on a storage that holds a file
\* below a directory
C23_Witness ==
    /\ fsys.req.Op = "delete" /\ fsys.req.Path = <<>>
    /\ ~fsys.res.OK /\ fsys.res.Error = "path is required"
    /\ IsFile(fsys.nodes, <<"d", "g">>)

\* C24: copy with a directory as its source returns "copy supports files
\* only" and leaves the storage unchanged: neither the destination nor any
\* parent of it is created.
C24_CopyDirRefused ==
    [][fsys'.req.Op = "copy" /\ fsys'.req.Dest # <<>>
       /\ fsys'.req.Path # <<>> /\ IsDir(fsys.nodes, fsys'.req.Path) =>
            /\ ~fsys'.res.OK
            /\ fsys'.res.Error = "copy supports files only"
            /\ fsys'.nodes = fsys.nodes
            /\ fsys'.sys = <<"Stat">>]_vars

\* a directory was refused as the source of a copy whose destination lies in
\* a directory that does not exist
C24_Witness ==
    /\ fsys.req = FSRequest("copy", <<"d">>, <<>>, <<"f", "g">>)
    /\ fsys.res.Error = "copy supports files only"
    /\ IsDir(fsys.nodes, <<"d">>)
    /\ <<"f">> \notin DOMAIN fsys.nodes

\* the template with every placeholder of an argument key replaced, at the
\* place where it stands, by the text of the argument
RECURSIVE Replaced(_, _)
Replaced(template, params) ==
    IF template = <<>> THEN <<>>
    ELSE LET ks == {k \in DOMAIN params : IsPrefix(Placeholder(k), template)} IN
         IF ks = {} THEN <<Head(template)>> \o Replaced(Tail(template), params)
         ELSE LET k == CHOOSE x \in ks : TRUE IN
              ValueText(params[k])
              \o Replaced(SubSeq(template, Len(Placeholder(k)) + 1, Len(template)),
                          params)

\* C27: substituteTemplate replaces every occurrence of {{.k}}, for each
\* argument key k, by the argument's value (a string verbatim, anything else
\* as JSON) and leaves the rest of the template, unmatched placeholders
\* included, as it is; arguments no placeholder names have no effect.
C27_SubstituteTemplate ==
    sb.pc = "done" => sb.result = Replaced(sb.template, sb.params)

\* a request was handed to the HTTP client
Sent == ht.pc \in {"sent", "done"} /\ ht.req # NoRequest

\* C25: before the request is sent the HTTP executor replaces every
\* {{.field}} placeholder whose field is a call argument, in the URL, in each
\* header value and in the body template, a non-string value by its JSON
\* serialization.
C25_PlaceholdersReplaced ==
    Sent =>
        /\ ht.req.url = Replaced(ht.tool.URL, ht.params)
        /\ \A k \in DOMAIN ht.tool.Headers :
              ht.req.headers[k] =
                substituteEnvVars(Replaced(ht.tool.Headers[k], ht.params), ht.environ)
        /\ ht.tool.Body # <<>> => ht.req.body = Replaced(ht.tool.Body, ht.params)

\* C26: $VAR and ${VAR} in an HTTP tool definition are replaced by the value
\* of the environment variable, in the URL and in every header value.
C26_EnvExpanded ==
    Sent =>
        /\ ht.req.url = Replaced(Expand(ht.tool.URL, ht.environ), ht.params)
        /\ \A k \in DOMAIN ht.tool.Headers :
              ht.req.headers[k] = Expand(ht.tool.Headers[k], ht.environ)

\* the endpoint answered and its body was read
Answered == ht.pc = "done" /\ ht.resp.kind = "response"

\* the result of a status below 400: the body parsed as JSON, or the body
\* as a string when it is not JSON
BodyReturned ==
    /\ ht.res.OK
    /\ ht.res.Data = IF Unmarshal(ht.resp.body).ok THEN Unmarshal(ht.resp.body).value
                      ELSE StringValue(ht.resp.body)

\* C28 (as stated): a response with status >= 400 gives ok=false with the
\* response body as the error message; a status below 400 gives ok=true with
\* the parsed body, or the raw body when it is not JSON.
C28_StatusErrorIsBody ==
    Answered =>
        IF ht.resp.status >= 400
        THEN ~ht.res.OK /\ ht.res.Error = ht.resp.body
        ELSE BodyReturned

\* C28 (amended): a response with status >= 400 gives ok=false with the error
\* message "HTTP <status>: <response body>"; a status below 400 gives ok=true
\* with the parsed body, or the raw body when it is not JSON.
C28_StatusErrorCarriesBody ==
    Answered =>
        IF ht.resp.status >= 400
        THEN /\ ~ht.res.OK
             /\ ht.res.Error = <<"H", "T", "T", "P", " ">> \o Digits(ht.resp.status)
                                \o <<":", " ">> \o ht.resp.body
        ELSE BodyReturned

\* the endpoint answered 400 with a body that is not JSON
C28_Witness ==
    /\ Answered /\ ht.resp.status = 400 /\ ht.resp.body = <<"o", "o", "p", "s">>
    /\ ~ht.res.OK

\* executeExec returned from the done case for a subprocess that exited
Exited(code) ==
    /\ ex.ret # <<>> /\ ~TimedOut
    /\ ex.proc = "exited" /\ ex.code = code

\* the captured standard output, parsed when it is JSON
OutputReturned ==
    /\ ex.ret[1].OK
    /\ ex.ret[1].Data = IF Unmarshal(ex.stdout).ok THEN Unmarshal(ex.stdout).value
                         ELSE StringValue(ex.stdout)

\* the command that ran is the tool's command and arguments with the
\* placeholders of the call's arguments replaced
StartedSubstituted ==
    ex.proc # "none" =>
        /\ ex.started.command = Replaced(ex.tool.Command, ex.params)
        /\ ex.started.args =
              [i \in 1..Len(ex.tool.Args) |-> Replaced(ex.tool.Args[i], ex.params)]

Rendered(chars) ==
    IF Len(chars) > 100 THEN UTF8(SubSeq(chars, 1, 97)) \o <<".", ".", ".">>
    ELSE UTF8(chars)

\* the calls of the round passed so far whose tool is registered
PassedRegistered ==
    SelectSeq(SubSeq(lg.calls, 1, lg.idx - 1), LAMBDA c : c.Name \in DOMAIN tools)

\* C30: each executed tool call writes exactly one line to the diagnostics
\* sink, none when the sink is absent and none for a skipped call; the line
\* carries the provider, the tool, the ok flag, the error text or "-" when
\* it is empty, and the input in at most 100 characters: an input of more
\* than 100 characters as its first 97 characters and "...", a shorter one
\* unchanged.
C30_DiagnosticLine ==
    lg.pc # "idle" =>
        /\ [i \in 1..Len(lg.executed) |-> lg.executed[i].call] = PassedRegistered
        /\ ~lg.w => lg.lines = <<>>
        /\ lg.w =>
              /\ Len(lg.lines) = Len(lg.executed)
              /\ \A i \in 1..Len(lg.lines) :
                    LET e == lg.executed[i] IN
                    /\ lg.lines[i].provider = lg.provider
                    /\ lg.lines[i].tool = e.call.Name
                    /\ lg.lines[i].ok = e.res.OK
                    /\ lg.lines[i].err = IF e.res.Error = "" THEN "-" ELSE e.res.Error
                    /\ lg.lines[i].input = Rendered(e.call.Arguments)

\* the value of the first source that gives one, else the default
FirstGiven(flag, fromEnv, fromFile, default) ==
    IF flag.given THEN flag.v
    ELSE IF fromEnv.given THEN fromEnv.v
    ELSE IF fromFile.given THEN fromFile.v
    ELSE default

\* what the environment gives: nothing when the variable is empty or, for a
\* number, cannot be parsed
EnvText(str) == IF str # "" THEN Given(str) ELSE NotGiven("")
EnvNumber(str) == IF Atoi(str).ok THEN Given(Atoi(str).v) ELSE NotGiven(0)

\* C31: for provider, model, max tokens, temperature and timeout Load
\* returns the value of the flag when the flag was given, otherwise that of
\* the environment, otherwise that of the config file, otherwise the default.
C31_Precedence ==
    cf.pc = "done" =>
        LET o == cf.file.object
            e == cf.environ
            prov == FirstGiven(cf.cmd.Provider, EnvText(e.GOGO_PROVIDER), o.provider, "")
        IN  /\ cf.cfg.Provider = prov
            /\ cf.cfg.Model = FirstGiven(cf.cmd.Model, EnvText(e.GOGO_MODEL), o.model,
                                         DefaultModel(prov))
            /\ cf.cfg.MaxTokens = FirstGiven(cf.cmd.MaxTokens, EnvNumber(e.GOGO_MAX_TOKENS),
                                             o.max_tokens, 0)
            /\ cf.cfg.Temperature = FirstGiven(cf.cmd.Temperature,
                                               EnvNumber(e.GOGO_TEMPERATURE),
                                               o.temperature, 0)
            /\ cf.cfg.Timeout = FirstGiven(cf.cmd.Timeout, EnvNumber(e.GOGO_TIMEOUT_MS),
                                           o.timeout_ms, 0)

\* the steps from one phase of a run to the next
PhaseSteps ==
    {<<"idle", "request">>, <<"idle", "done">>, <<"request", "streaming">>,
     <<"request", "done">>, <<"streaming", "streaming">>, <<"streaming", "exec">>,
     <<"streaming", "done">>, <<"exec", "exec">>, <<"exec", "request">>,
     <<"exec", "done">>}

\* C32: a run goes Idle -> round-1 streaming -> (Done | tool execution ->
\* round-2 streaming -> Done). A tool executes only after the round-1 stream
\* has ended, before the round-2 request is sent and while no stream is
\* open; the calls round 2 requests are never executed, and there are never
\* more executions than round-1 calls.
C32_PhaseOrder ==
    [][/\ <<pc, pc'>> \in PhaseSteps
       /\ round' >= round
       /\ pc' = "request" /\ pc # "request" =>
             \/ pc = "idle" /\ round' = 1
             \/ pc = "exec" /\ round = 1 /\ round' = 2
       /\ pc' = "exec" => round' = 1 /\ 1 \in ended'
       /\ round = 2 => pc' \in {"request", "streaming", "done"}
       /\ executed' # executed =>
             /\ pc = "exec" /\ round = 1 /\ 1 \in ended /\ 2 \notin ended
             /\ Len(requests') = 1
             /\ Len(executed') = Len(executed) + 1
       /\ Len(requests') = 2 /\ Len(requests) = 1 =>
             executed' = executed /\ idx > Len(calls)
       /\ round' = 2 => executed' = executed
       /\ Len(executed') <= Len(calls')]_vars

\* both calls of round 1 were executed and round 2, which asked for tools
\* again, ended the run
C32_Witness ==
    /\ pc = "done" /\ err = "nil" /\ 2 \in ended
    /\ Len(calls) = 2 /\ Len(executed) = 2 /\ Round2AskedTools

\* C33: the continuation request holds exactly one result entry for each
\* executed round-1 call and none for another call; each entry carries the
\* address of the call that produced it (call_id, tool_use_id, function
\* name), and no other call of the round has that address, also when one
\* tool is called twice in the round.
C33_ResultsAddressed ==
    Len(requests) = 2 =>
      LET results == ResultsOf(requests[2]) IN
      /\ Len(results) = Len(executed)
      /\ \A i, j \in 1..Len(executed) : executed[i].pos = executed[j].pos => i = j
      /\ \A i \in 1..Len(executed) :
            /\ Registered(calls[executed[i].pos].Name)
            /\ results[i].addr = AddrOf(provider, calls[executed[i].pos])
            /\ results[i].output = ToJSON(executed[i].res)
            /\ \A k \in 1..Len(calls) :
                  k # executed[i].pos => AddrOf(provider, calls[k]) # results[i].addr

\* the kind of the turn that carries the results of a provider
ResultTurnKind(p) == IF p = "anthropic" THEN "tool_results" ELSE "function_responses"

\* C34: continuation threading. The round-2 request of OpenAI carries the
\* response identifier captured from the round-1 stream and the tool outputs
\* alone as its input; the round-2 request of Anthropic and Gemini is the
\* turn list of round 1, unchanged and in order, followed by one
\* tool-result turn; the turn list of round 1 is left as it was.
C34_ContinuationThreading ==
    /\ Len(requests) >= 1 =>
          /\ requests[1].input = InitialInput(provider)
          /\ requests[1].previousID = ""
    /\ Len(requests) = 2 =>
          LET first == requests[1].input
              second == requests[2].input
          IN  IF provider = "openai"
              THEN /\ requests[2].previousID = savedID
                   /\ second = toolMessages
                   /\ \A i \in 1..Len(second) : second[i].type = "function_call_output"
              ELSE /\ requests[2].previousID = ""
                   /\ Len(second) = Len(first) + 1
                   /\ SubSeq(second, 1, Len(first)) = first
                   /\ Last(second).kind = ResultTurnKind(provider)
                   /\ Last(second).results = toolMessages
                   /\ \A i \in 1..Len(first) : first[i].kind = "prompt"

\* the second request of an OpenAI run was sent with the identifier of the
\* first response
C34_Witness ==
    /\ provider = "openai" /\ Len(requests) = 2 /\ pc = "done"
    /\ requests[2].previousID = "resp_1" /\ Len(requests[2].input) = 1

\* the tool declares a Content-Type header
TypeDeclared == "Content-Type" \in DOMAIN ht.tool.Headers

\* the declared Content-Type with the environment expanded
TypeExpanded == substituteEnvVars(ht.tool.Headers["Content-Type"], ht.environ)

JSONType == <<"application/json">>

\* C35: a tool that declares no method sends a call that has a body with
\* POST; a Content-Type the tool declares is never overwritten, and the
\* default application/json is set only when the tool declares none.
C35_ContentTypeKept ==
    Sent =>
      /\ (ht.tool.Method = "" /\ ht.req.body # <<>>) => ht.req.method = "POST"
      /\ TypeDeclared => ht.req.headers["Content-Type"] = TypeExpanded
      /\ ~TypeDeclared =>
            ("Content-Type" \in DOMAIN ht.req.headers =>
                ht.req.headers["Content-Type"] = JSONType)

\* C35, amended: a tool that declares no method sends every call with POST;
\* a declared Content-Type whose expanded value is not empty is never
\* overwritten, and the default application/json is set exactly when the
\* method is POST or PUT and the tool declares no Content-Type or one whose
\* expanded value is empty.
C35_ContentTypeKeptUnlessEmpty ==
    Sent =>
      LET typed == TypeDeclared /\ TypeExpanded # <<>>
          defaulted == ht.req.method \in {"POST", "PUT"} /\ ~typed
      IN  /\ ht.tool.Method = "" => ht.req.method = "POST"
          /\ ht.tool.Method # "" => ht.req.method = ht.tool.Method
          /\ typed => ht.req.headers["Content-Type"] = TypeExpanded
          /\ defaulted => ht.req.headers["Content-Type"] = JSONType
          /\ (~typed /\ ~defaulted) =>
                IF TypeDeclared THEN ht.req.headers["Content-Type"] = <<>>
                ELSE "Content-Type" \notin DOMAIN ht.req.headers

\* a tool without a method whose declared Content-Type expands to nothing
\* sent a body with POST and the default Content-Type
C35_Witness ==
    /\ Sent /\ ht.tool.Method = "" /\ ht.req.body # <<>> /\ ht.req.method = "POST"
    /\ TypeDeclared /\ TypeExpanded = <<>>
    /\ ht.req.headers["Content-Type"] = JSONType

\* the definition of the built-in tool's name that a loaded file declares
UserFS(f) == f.tools[Max(ValidAt(f, FSToolName))]

\* C36: a user plugin overrides the built-in fs tool. When the plugins file
\* declares a valid tool named fs, the registry LoadWithBuiltins returns
\* holds the user's definition under that name, and a call of fs is
\* dispatched to it.
C36_UserFsOverrides ==
    (/\ rg.last.op = "LoadWithBuiltins" /\ rg.last.res.OK
     /\ ValidAt(rg.last.file, FSToolName) # {}) =>
        /\ rg.tools[FSToolName] = UserFS(rg.last.file)
        /\ \A arg \in Inputs :
              ExecuteTool(rg.tools, FSToolName, arg)
                  = ToolExecute(UserFS(rg.last.file), arg)

\* an error message, held as a string or as its characters, is empty
NoError(e) == Len(e) = 0

\* a result is well formed: ok with no error, or not ok with an error
WellFormed(res) == res.OK <=> NoError(res.Error)

\* C38: tool execution always yields a well-formed result. For a tool of
\* every kind (builtin, http, exec) and every input, also one that is empty
\* or is not JSON, ExecuteTool and the executor it dispatches to return
\* either ok = true with an empty error or ok = false with an error that is
\* not empty.
C38_ResultWellFormed ==
    /\ rg.last.op \in {"Execute", "ExecuteTool"} => WellFormed(rg.last.res)
    /\ fsys.req.Op # "" => WellFormed(fsys.res)
    /\ ht.pc = "done" => WellFormed(ht.res)
    /\ \A i \in 1..Len(ex.ret) : WellFormed(ex.ret[i])

\* ExecuteTool was called for the built-in tool with an input that is not
\* JSON and answered with a failure
C38_Witness ==
    /\ rg.last.op = "ExecuteTool" /\ rg.last.name = FSToolName
    /\ FSToolName \in DOMAIN rg.last.before
    /\ rg.last.before[FSToolName].Type = "builtin"
    /\ rg.last.input = <<"}">> /\ ~rg.last.res.OK /\ rg.last.res.Error # ""

\* the text holds the sign that starts a reference to the environment
HasDollar(text) == \E i \in 1..Len(text) : text[i] = "$"

C40_SinglePass ==
    sb.pc = "done" =>
        /\ substituteTemplate(sb.template, sb.params) = {sb.result}
        /\ \A k \in DOMAIN sb.params :
              sb.template = Placeholder(k) => sb.result = ValueText(sb.params[k])

\* Stream has returned, with success or with an error
Terminated == pc = "done" /\ err # ""

\* C37: termination. When every provider stream is finite and every tool
\* execution returns, each run of Stream ends with success or with an error,
\* after at most two requests and at most one execution for each call of
\* round 1.
C37_Terminates ==
    <>[](/\ Terminated
         /\ Len(requests) <= 2
         /\ Len(executed) <= Len(calls)
         /\ \A i, j \in 1..Len(executed) : executed[i].pos = executed[j].pos => i = j)

\* a run that executed two calls and sent two requests has returned
C37_Witness ==
    /\ Terminated /\ Len(requests) = 2 /\ Len(executed) = 2
    /\ 1 \in ended /\ 2 \in ended /\ texts[2] # <<>>

====
